---- MODULE Spec2Model ----
(***************************************************************************)
(* Office Time Manager: the punch integrity and time accounting engine.    *)
(*                                                                         *)
(* Instants are UTC epoch milliseconds (JavaScript Date values).  The      *)
(* punch log is the PunchLog collection; createPunch requests run as       *)
(* interleaved processes whose steps are the handler's await points.       *)
(* SpecCleanup adds the scheduler jobs of PunchCleanupService, SpecEdit    *)
(* the edits and deletions with the audit log.                             *)
(***************************************************************************)
EXTENDS Integers, Sequences, FiniteSets, TLC

VARIABLES now, punches, req, wt, created, audit, job, op, view

vars == <<now, punches, req, wt, created, audit, job, op, view>>

-----------------------------------------------------------------------------
(* Bounds of the model *)

MaxPunches == 2
MaxLen == 4

-----------------------------------------------------------------------------
(* Units of time, as moment.js converts them *)

MsPerSecond == 1000
MsPerMinute == 60 * MsPerSecond
MsPerHour == 60 * MsPerMinute
MsPerDay == 24 * MsPerHour

Abs(x) == IF x < 0 THEN 0 - x ELSE x

\* moment#diff(other, unit): the difference in whole units, truncated toward zero
TruncDiv(a, b) == IF a >= 0 THEN a \div b ELSE 0 - ((0 - a) \div b)

momentDiff(a, b, unit) == TruncDiv(a - b, unit)

Max(a, b) == IF a >= b THEN a ELSE b

\* The instant of day `d` (days since the epoch) at h:m:s.ms UTC
At(d, h, m, s, ms) == d * MsPerDay + h * MsPerHour + m * MsPerMinute + s * MsPerSecond + ms

-----------------------------------------------------------------------------
(* Configuration and user profiles *)

WeekdayNames == <<"Sunday", "Monday", "Tuesday", "Wednesday", "Thursday", "Friday", "Saturday">>

DefaultTimezone == "Asia/Kolkata"
DefaultWorkingDays == {"Monday", "Tuesday", "Wednesday", "Thursday", "Friday"}
DefaultBusinessHours == [start |-> <<6, 0>>, end |-> <<23, 59>>]
DefaultGraceMinutes == 15
DefaultShiftStartTime == <<9, 0>>
DefaultMinimumWorkHours == 8
DoublePunchWindowSeconds == 60

Users == {"u1", "u2"}

\* user.profile of the two users of the model: u1 keeps the default timezone and
\* working days and punches from the web page; u2 lives in UTC, also works on
\* Saturdays and punches with an NFC tag
Profile(u) ==
  IF u = "u1"
    THEN [timezone |-> "", workingDays |-> DefaultWorkingDays, preferredPunchMethod |-> "Manual"]
    ELSE [timezone |-> "UTC", workingDays |-> DefaultWorkingDays \cup {"Saturday"},
          preferredPunchMethod |-> "NFC"]

\* moment-timezone's UTC offset of a zone, in minutes (neither zone has DST)
UtcOffsetMinutes(tz) == IF tz = "Asia/Kolkata" THEN 330 ELSE 0

getTimezone(u) == IF Profile(u).timezone # "" THEN Profile(u).timezone ELSE DefaultTimezone

LocalMs(t, tz) == t + UtcOffsetMinutes(tz) * MsPerMinute

\* moment(t).tz(tz).startOf('day') and .endOf('day'), as UTC instants
startOfDay(t, tz) == (LocalMs(t, tz) \div MsPerDay) * MsPerDay - UtcOffsetMinutes(tz) * MsPerMinute
endOfDay(t, tz) == startOfDay(t, tz) + MsPerDay - 1

getDayBoundsUTC(tz, t) == [start |-> startOfDay(t, tz), end |-> endOfDay(t, tz)]

\* moment(t).tz(tz).hour(), .minute(), .format('dddd'); the epoch was a Thursday
LocalHour(t, tz) == (LocalMs(t, tz) % MsPerDay) \div MsPerHour
LocalMinute(t, tz) == (LocalMs(t, tz) % MsPerHour) \div MsPerMinute
DayName(t, tz) == WeekdayNames[(((LocalMs(t, tz) \div MsPerDay) + 4) % 7) + 1]

-----------------------------------------------------------------------------
(* The punch log *)

NoPunch == [id |-> 0, userId |-> "", punchType |-> "NONE", punchTime |-> 0,
            source |-> "", notes |-> [text |-> "", late |-> 0 - 1],
            edited |-> FALSE, editedBy |-> "", editedAt |-> 0, editReason |-> "",
            originalPunchTime |-> 0, originalPunchType |-> ""]

PunchesOf(log, u) == {log[i] : i \in {j \in 1..Len(log) : log[j].userId = u}}

\* PunchLog.find({userId, punchTime: {$gte: start, $lte: end}})
PunchesInRange(log, u, start, end) ==
  {p \in PunchesOf(log, u) : p.punchTime >= start /\ p.punchTime <= end}

\* The documents a query sorted by punchTime may return last (ascending) or
\* first (descending): the sort leaves the order of equal punchTimes open
Latest(S) == {p \in S : \A q \in S : q.punchTime <= p.punchTime}

\* TimeEngine.getLastPunch: findOne({userId}).sort({punchTime: -1})
getLastPunch(log, u) == IF PunchesOf(log, u) = {} THEN {NoPunch} ELSE Latest(PunchesOf(log, u))

\* The punches of the user's current local day
getTodayPunches(log, u, tz, t) == PunchesInRange(log, u, startOfDay(t, tz), endOfDay(t, tz))

-----------------------------------------------------------------------------
(* TimeEngine *)

\* isDoublePunch with the window's end included
isDoublePunch_Inclusive(lastPunch, newPunchTime) ==
  IF lastPunch.id = 0
    THEN FALSE
    ELSE Abs(momentDiff(newPunchTime, lastPunch.punchTime, 1000)) <= 60

\* TimeEngine.isDoublePunch, given the punch getLastPunch returned
isDoublePunch(lastPunch, newPunchTime) ==
  IF lastPunch.id = 0
    THEN FALSE
    ELSE Abs(momentDiff(newPunchTime, lastPunch.punchTime, MsPerSecond)) < DoublePunchWindowSeconds

\* getNextPunchType answering IN whatever the last punch is
getNextPunchType_AlwaysIn(lastPunch) == "IN"

\* TimeEngine.getNextPunchType, given the punch getLastPunch returned
getNextPunchType(lastPunch) ==
  IF lastPunch.id = 0
    THEN "IN"
    ELSE IF lastPunch.punchType = "IN" THEN "OUT" ELSE "IN"

MaxSessionMinutes == 1440
MaxOpenPunchMinutes == 960
OpenPunchEstimateMinutes == 480

\* The loop with an unmatched IN kept when another IN follows it
RECURSIVE WorkedScan_KeepFirstIn(_, _, _)
WorkedScan_KeepFirstIn(ps, i, st) ==
  IF i > Len(ps)
    THEN st
    ELSE IF ps[i].punchType = "IN"
      THEN WorkedScan_KeepFirstIn(ps, i + 1,
             IF st.lastIn = 0 - 1 THEN [st EXCEPT !.lastIn = ps[i].punchTime] ELSE st)
      ELSE IF st.lastIn # 0 - 1
        THEN LET duration == ps[i].punchTime - st.lastIn
             IN  IF duration > 1440 * MsPerMinute
                   THEN WorkedScan_KeepFirstIn(ps, i + 1, [st EXCEPT !.lastIn = 0 - 1])
                   ELSE WorkedScan_KeepFirstIn(ps, i + 1, [total |-> st.total + duration, lastIn |-> 0 - 1])
        ELSE WorkedScan_KeepFirstIn(ps, i + 1, st)

\* The loop with totalMinutes = duration in place of totalMinutes += duration
RECURSIVE WorkedScan_LastSessionOnly(_, _, _)
WorkedScan_LastSessionOnly(ps, i, st) ==
  IF i > Len(ps)
    THEN st
    ELSE IF ps[i].punchType = "IN"
      THEN WorkedScan_LastSessionOnly(ps, i + 1, [st EXCEPT !.lastIn = ps[i].punchTime])
      ELSE IF st.lastIn # 0 - 1
        THEN LET duration == ps[i].punchTime - st.lastIn
             IN  IF duration > 1440 * MsPerMinute
                   THEN WorkedScan_LastSessionOnly(ps, i + 1, [st EXCEPT !.lastIn = 0 - 1])
                   ELSE WorkedScan_LastSessionOnly(ps, i + 1, [total |-> duration, lastIn |-> 0 - 1])
        ELSE WorkedScan_LastSessionOnly(ps, i + 1, st)

\* The loop of calculateWorkedTime from punch i on; st = [total, lastIn], where
\* lastIn is the punchTime of lastInPunch, or -1 for null.  Minutes are exact
\* fractions in the code (diff(..., 'minutes', true)); the model counts them in
\* milliseconds.
RECURSIVE WorkedScan(_, _, _)
WorkedScan(ps, i, st) ==
  IF i > Len(ps)
    THEN st
    ELSE IF ps[i].punchType = "IN"
      THEN WorkedScan(ps, i + 1, [st EXCEPT !.lastIn = ps[i].punchTime])
      ELSE IF ps[i].punchType = "OUT" /\ st.lastIn # 0 - 1
        THEN LET duration == ps[i].punchTime - st.lastIn
             IN  IF duration > MaxSessionMinutes * MsPerMinute
                   THEN WorkedScan(ps, i + 1, [st EXCEPT !.lastIn = 0 - 1])
                   ELSE WorkedScan(ps, i + 1, [total |-> st.total + duration, lastIn |-> 0 - 1])
        ELSE WorkedScan(ps, i + 1, st)

\* calculateWorkedTime without the final Math.max(0, ...)
calculateWorkedTime_NoFloor(ps, includeOpenPunch, t) ==
  LET st == WorkedScan(ps, 1, [total |-> 0, lastIn |-> 0 - 1])
  IN  st.total + (IF includeOpenPunch /\ st.lastIn # 0 - 1
                    THEN IF t - st.lastIn <= 960 * MsPerMinute THEN t - st.lastIn
                         ELSE 480 * MsPerMinute
                    ELSE 0)

\* calculateWorkedTime with the cap of an open punch applied to the estimate too
calculateWorkedTime_NoEstimate(ps, includeOpenPunch, t) ==
  LET st == WorkedScan(ps, 1, [total |-> 0, lastIn |-> 0 - 1])
  IN  Max(0, st.total + (IF includeOpenPunch /\ st.lastIn # 0 - 1
                           THEN IF t - st.lastIn <= 960 * MsPerMinute THEN t - st.lastIn
                                ELSE 960 * MsPerMinute
                           ELSE 0))

\* TimeEngine.calculateWorkedTime(punches, includeOpenPunch) evaluated at instant t
calculateWorkedTime(ps, includeOpenPunch, t) ==
  LET st == WorkedScan(ps, 1, [total |-> 0, lastIn |-> 0 - 1])
      open == IF includeOpenPunch /\ st.lastIn # 0 - 1
                THEN LET duration == t - st.lastIn
                     IN  IF duration <= MaxOpenPunchMinutes * MsPerMinute
                           THEN duration
                           ELSE OpenPunchEstimateMinutes * MsPerMinute
                ELSE 0
  IN  Max(0, st.total + open)

-----------------------------------------------------------------------------
(* PunchValidator *)

\* The last element of todayPunches (sorted ascending), NoPunch when empty
TodayLast(log, u, tz, t) ==
  IF getTodayPunches(log, u, tz, t) = {} THEN {NoPunch} ELSE Latest(getTodayPunches(log, u, tz, t))

\* validatePunchSequence without the check of the first punch of the day
validatePunchSequence_NoFirstCheck(todayLast, newPunchType) ==
  IF todayLast.id # 0 /\ todayLast.punchType = newPunchType
    THEN [valid |-> FALSE,
          error |-> IF newPunchType = "IN" THEN "Cannot punch IN twice in a row"
                                           ELSE "Cannot punch OUT twice in a row"]
    ELSE [valid |-> TRUE, error |-> ""]

\* PunchValidator.validatePunchSequence, given the last of today's punches
validatePunchSequence(todayLast, newPunchType) ==
  IF todayLast.id = 0
    THEN IF newPunchType # "IN"
           THEN [valid |-> FALSE, error |-> "First punch of the day must be IN"]
           ELSE [valid |-> TRUE, error |-> ""]
    ELSE IF todayLast.punchType = newPunchType
           THEN [valid |-> FALSE,
                 error |-> IF newPunchType = "IN" THEN "Cannot punch IN twice in a row"
                                                  ELSE "Cannot punch OUT twice in a row"]
           ELSE [valid |-> TRUE, error |-> ""]

\* PunchValidator.validateBusinessHours: valid unless outside [start, end]
validateBusinessHours(punchTime, tz, businessHours) ==
  LET punchMinutes == LocalHour(punchTime, tz) * 60 + LocalMinute(punchTime, tz)
      startMinutes == businessHours.start[1] * 60 + businessHours.start[2]
      endMinutes == businessHours.end[1] * 60 + businessHours.end[2]
  IN  ~(punchMinutes < startMinutes \/ punchMinutes > endMinutes)

\* PunchValidator.validateWorkingDay: valid iff the local weekday is a working day
validateWorkingDay(punchTime, tz, workingDays) == DayName(punchTime, tz) \in workingDays

\* PunchValidator.checkGracePeriod; hour(), minute() and second(0) leave the
\* punch's milliseconds in shiftStart
checkGracePeriod(punchInTime, tz, graceMinutes, shiftStartTime) ==
  LET shiftStart == startOfDay(punchInTime, tz) + shiftStartTime[1] * MsPerHour
                      + shiftStartTime[2] * MsPerMinute + (punchInTime % MsPerSecond)
      gracePeriodEnd == shiftStart + graceMinutes * MsPerMinute
  IN  IF punchInTime > gracePeriodEnd
        THEN [isLate |-> TRUE, minutesLate |-> momentDiff(punchInTime, shiftStart, MsPerMinute)]
        ELSE [isLate |-> FALSE, minutesLate |-> 0]

\* PunchValidator.checkEarlyDeparture: hoursWorked < minimumWorkHours
checkEarlyDeparture(punchOutTime, punchInTime, minimumWorkHours) ==
  punchOutTime - punchInTime < minimumWorkHours * MsPerHour

\* PunchLog.findOne({userId, punchType: 'IN', punchTime: {$lt: punchTime}}).sort({punchTime: -1})
LastInBefore(log, u, punchTime) ==
  LET ins == {p \in PunchesOf(log, u) : p.punchType = "IN" /\ p.punchTime < punchTime}
  IN  IF ins = {} THEN {NoPunch} ELSE Latest(ins)

\* collectWarnings without the late-arrival warning
collectWarnings_NoLate(v) ==
  (IF ~v.businessHours THEN <<"businessHours">> ELSE <<>>)
  \o (IF ~v.workingDay THEN <<"workingDay">> ELSE <<>>)
  \o (IF v.isEarly THEN <<"earlyDeparture">> ELSE <<>>)

\* PunchValidator.collectWarnings
collectWarnings(v) ==
  (IF ~v.businessHours THEN <<"businessHours">> ELSE <<>>)
  \o (IF ~v.workingDay THEN <<"workingDay">> ELSE <<>>)
  \o (IF v.isLate THEN <<"late">> ELSE <<>>)
  \o (IF v.isEarly THEN <<"earlyDeparture">> ELSE <<>>)

\* PunchValidator.validatePunch after its reads: sequence is the result of
\* validatePunchSequence, lastInPunch the IN found for an OUT punch
validatePunch(u, punchType, punchTime, tz, sequence, lastInPunch) ==
  LET grace == IF punchType = "IN"
                 THEN checkGracePeriod(punchTime, tz, DefaultGraceMinutes, DefaultShiftStartTime)
                 ELSE [isLate |-> FALSE, minutesLate |-> 0]
      v == [sequence |-> sequence,
            businessHours |-> validateBusinessHours(punchTime, tz, DefaultBusinessHours),
            workingDay |-> validateWorkingDay(punchTime, tz, Profile(u).workingDays),
            isLate |-> grace.isLate,
            minutesLate |-> grace.minutesLate,
            isEarly |-> punchType = "OUT" /\ lastInPunch.id # 0
                          /\ checkEarlyDeparture(punchTime, lastInPunch.punchTime, DefaultMinimumWorkHours)]
      hasErrors == ~v.sequence.valid
      hasWarnings == ~v.businessHours \/ ~v.workingDay \/ v.isLate \/ v.isEarly
  IN  [valid |-> ~hasErrors,
       hasWarnings |-> hasWarnings,
       validations |-> v,
       errors |-> IF hasErrors THEN <<v.sequence.error>> ELSE <<>>,
       warnings |-> collectWarnings(v)]

-----------------------------------------------------------------------------
(* State *)

Reqs == {"r1", "r2"}

\* The instants the clock of the model visits (UTC).  Day 1 is Friday
\* 1970-01-02; 03:30 UTC is 09:00 in Asia/Kolkata, 18:30 UTC its midnight.
Instants ==
  { At(1, 3, 30, 0, 0),      \* Fri 09:00:00.000 IST
    At(1, 3, 30, 10, 0),     \* 10 s later
    At(1, 3, 30, 59, 999),   \* 59.999 s later
    At(1, 3, 31, 1, 0),      \* 61 s later
    At(1, 18, 29, 30, 0),    \* Fri 23:59:30 IST
    At(1, 18, 30, 30, 0) }   \* exactly 60 s later: Sat 00:00:30 IST

FirstInstant == CHOOSE t \in Instants : \A x \in Instants : t <= x

\* What a user submits: POST /api/punch with a note, or a scan at POST /api/punch/nfc
Submissions(u) ==
  IF Profile(u).preferredPunchMethod = "NFC"
    THEN {[source |-> "NFC", notes |-> ""]}
    ELSE {[source |-> "Manual", notes |-> "memo"]}

NfcResults == {"ok", "NFC UID is required for NFC punch.", "NFC tag not found or inactive.",
               "NFC tag is not registered to this user."}

NoValidation ==
  [valid |-> FALSE, hasWarnings |-> FALSE,
   validations |-> [sequence |-> [valid |-> FALSE, error |-> ""], businessHours |-> TRUE,
                    workingDay |-> TRUE, isLate |-> FALSE, minutesLate |-> 0, isEarly |-> FALSE],
   errors |-> <<>>, warnings |-> <<>>]

\* The body of a request that went straight to the service
NoBody == [punchType |-> "", source |-> ""]

\* A request slot: the body of the request, the locals of one createPunch
\* call and its result
IdleReq ==
  [pc |-> "idle", user |-> "", source |-> "", notes |-> "", punchTime |-> 0,
   lastSeen |-> 0, diffMs |-> 0 - 1, punchType |-> "NONE",
   sequence |-> [valid |-> FALSE, error |-> ""], todaySeen |-> "NONE",
   validation |-> NoValidation, mail |-> "none",
   outcome |-> "", error |-> "", punchId |-> 0, warnings |-> <<>>, body |-> NoBody]

\* The scheduler slot: the locals of one run of a PunchCleanupService job.
\* closedAt remembers how many punches had been created when the last
\* auto-close run returned (-1: none has, or somebody punched during that
\* run), startedAt how many when this run started, and rerun that it started
\* with no punch created since that return.
IdleJob ==
  [pc |-> "idle", kind |-> "", dryRun |-> FALSE, queue |-> <<>>, user |-> "", lastSeen |-> NoPunch,
   autoCloseTime |-> 0, closedCount |-> 0, notifications |-> <<>>, mailFailed |-> {},
   remindersSent |-> 0, orphanedPunches |-> <<>>, unmarked |-> <<>>, outcome |-> "", failedUser |-> "",
   closedAt |-> 0 - 1, startedAt |-> 0, rerun |-> FALSE]

\* An absent punchTime / punchType of an edit request, and an absent audit state
NoEdit == [punchTime |-> 0, punchType |-> ""]
NoState == [punchTime |-> 0, punchType |-> "NONE"]

\* The edit/delete slot: the locals of one PUT or DELETE /api/punch/:punchId
IdleOp ==
  [pc |-> "idle", kind |-> "", actor |-> "", punchId |-> 0, editData |-> NoEdit, reason |-> "",
   punch |-> NoPunch, previousState |-> NoState, outcome |-> "", status |-> 0, error |-> ""]

\* The worked-time harness: a punch list under construction and one evaluation
IdleWt == [punches |-> <<>>, includeOpenPunch |-> FALSE, at |-> 0, result |-> 0, pc |-> "build"]

\* The read slot: the locals of one dashboard or weekly summary request
IdleView ==
  [pc |-> "idle", kind |-> "", user |-> "", at |-> 0, todayPunches |-> <<>>, lastPunch |-> NoPunch,
   status |-> "", nextPunchType |-> "", hasOpenPunch |-> FALSE, hasOddPunchCount |-> FALSE,
   sessionCount |-> 0, isWeekend |-> FALSE, days |-> <<>>]

Init ==
  /\ now = FirstInstant
  /\ punches = <<>>
  /\ req = [r \in Reqs |-> IdleReq]
  /\ wt = IdleWt
  /\ created = 0
  /\ audit = <<>>
  /\ job = IdleJob
  /\ op = IdleOp
  /\ view = IdleView

-----------------------------------------------------------------------------
(* PunchService.createPunch, one action per await *)

\* const punchTime = new Date()
createPunch(r, u, options) ==
  /\ req[r].pc = "idle"
  /\ req' = [req EXCEPT ![r] = [IdleReq EXCEPT !.pc = "isDoublePunch", !.user = u,
                                  !.source = options.source, !.notes = options.notes,
                                  !.punchTime = now]]
  /\ UNCHANGED <<now, punches, wt, created, audit, job, op, view>>

\* await TimeEngine.isDoublePunch(user._id, punchTime)
createPunch_isDoublePunch(r) ==
  /\ req[r].pc = "isDoublePunch"
  /\ \E lastPunch \in getLastPunch(punches, req[r].user) :
       req' = [req EXCEPT ![r] =
                 IF isDoublePunch(lastPunch, req[r].punchTime)
                   THEN [@ EXCEPT !.pc = "done", !.outcome = "DoublePunch",
                                  !.diffMs = Abs(req[r].punchTime - lastPunch.punchTime),
                                  !.lastSeen = lastPunch.id,
                                  !.error = "Double punch detected. Please wait at least 1 minute between punches."]
                   ELSE [@ EXCEPT !.pc = "getNextPunchType",
                                  !.lastSeen = lastPunch.id,
                                  !.diffMs = IF lastPunch.id = 0 THEN 0 - 1
                                             ELSE Abs(req[r].punchTime - lastPunch.punchTime)]]
  /\ UNCHANGED <<now, punches, wt, created, audit, job, op, view>>

\* await TimeEngine.getNextPunchType(user._id)
createPunch_getNextPunchType(r) ==
  /\ req[r].pc = "getNextPunchType"
  /\ \E lastPunch \in getLastPunch(punches, req[r].user) :
       req' = [req EXCEPT ![r] = [@ EXCEPT !.pc = "validatePunchSequence",
                                           !.lastSeen = lastPunch.id,
                                           !.punchType = getNextPunchType(lastPunch)]]
  /\ UNCHANGED <<now, punches, wt, created, audit, job, op, view>>

\* The validation block without the throw on an invalid result
AfterValidation_NoThrow(rq, validation) ==
  [rq EXCEPT !.validation = validation,
             !.warnings = IF validation.hasWarnings THEN validation.warnings ELSE <<>>,
             !.pc = IF rq.source = "NFC" THEN "nfc" ELSE "create"]

\* The rest of createPunch's validation block once validatePunch has returned
AfterValidation(rq, validation) ==
  IF ~validation.valid
    THEN [rq EXCEPT !.pc = "done", !.validation = validation, !.outcome = "ValidationError",
                    !.error = validation.errors[1]]
    ELSE [rq EXCEPT !.validation = validation,
                    !.warnings = IF validation.hasWarnings THEN validation.warnings ELSE <<>>,
                    !.pc = IF validation.hasWarnings /\ ~validation.validations.workingDay
                             THEN "sendWeekendPunchWarning"
                             ELSE IF rq.source = "NFC" THEN "nfc" ELSE "create"]

\* validatePunch: await this.validatePunchSequence(userId, punchType, timezone);
\* an IN punch has no further read
createPunch_validatePunchSequence(r) ==
  /\ req[r].pc = "validatePunchSequence"
  /\ \E todayLast \in TodayLast(punches, req[r].user, getTimezone(req[r].user), now) :
       LET sequence == validatePunchSequence(todayLast, req[r].punchType)
           rq == [req[r] EXCEPT !.sequence = sequence, !.todaySeen = todayLast.punchType]
       IN  req' = [req EXCEPT ![r] =
                     IF rq.punchType = "OUT"
                       THEN [rq EXCEPT !.pc = "findLastIn"]
                       ELSE AfterValidation(rq, validatePunch(rq.user, rq.punchType, rq.punchTime,
                                                              getTimezone(rq.user), sequence, NoPunch))]
  /\ UNCHANGED <<now, punches, wt, created, audit, job, op, view>>

\* validatePunch for an OUT punch: await PunchLog.findOne({punchType: 'IN', punchTime: {$lt}})
createPunch_findLastIn(r) ==
  /\ req[r].pc = "findLastIn"
  /\ \E lastInPunch \in LastInBefore(punches, req[r].user, req[r].punchTime) :
       req' = [req EXCEPT ![r] =
                 AfterValidation(req[r], validatePunch(req[r].user, req[r].punchType, req[r].punchTime,
                                                       getTimezone(req[r].user), req[r].sequence, lastInPunch))]
  /\ UNCHANGED <<now, punches, wt, created, audit, job, op, view>>

\* try { await EmailService.sendWeekendPunchWarning(...) } catch { console.error }
createPunch_sendWeekendPunchWarning(r) ==
  /\ req[r].pc = "sendWeekendPunchWarning"
  /\ \E delivered \in BOOLEAN :
       req' = [req EXCEPT ![r] = [@ EXCEPT !.mail = IF delivered THEN "sent" ELSE "failed",
                                           !.pc = IF req[r].source = "NFC" THEN "nfc" ELSE "create"]]
  /\ UNCHANGED <<now, punches, wt, created, audit, job, op, view>>

\* if (source === 'NFC') { ... NfcTag.findActiveByUID ... recordUsage }
createPunch_nfc(r) ==
  /\ req[r].pc = "nfc"
  /\ \E res \in NfcResults :
       req' = [req EXCEPT ![r] =
                 IF res = "ok"
                   THEN [@ EXCEPT !.pc = "create"]
                   ELSE [@ EXCEPT !.pc = "done", !.outcome = "NfcError", !.error = res]]
  /\ UNCHANGED <<now, punches, wt, created, audit, job, op, view>>

\* finalNotes and the document PunchLog.create stores
NewPunch(rq, id) ==
  [id |-> id, userId |-> rq.user, punchType |-> rq.punchType, punchTime |-> rq.punchTime,
   source |-> rq.source,
   notes |-> [text |-> rq.notes,
              late |-> IF rq.validation.hasWarnings /\ rq.validation.validations.isLate
                         THEN rq.validation.validations.minutesLate ELSE 0 - 1],
   edited |-> FALSE, editedBy |-> "", editedAt |-> 0, editReason |-> "",
   originalPunchTime |-> 0, originalPunchType |-> ""]

\* await PunchLog.create({...}); the dashboard and issue reads that follow
\* change nothing
createPunch_create(r) ==
  /\ req[r].pc = "create"
  /\ Len(punches) < MaxPunches
  /\ punches' = Append(punches, NewPunch(req[r], created + 1))
  /\ created' = created + 1
  /\ req' = [req EXCEPT ![r] = [@ EXCEPT !.pc = "done", !.outcome = "Created",
                                         !.punchId = created + 1]]
  /\ UNCHANGED <<now, wt, audit, job, op, view>>

\* The response is sent and the slot is free for the next request
respond(r) ==
  /\ req[r].pc = "done"
  /\ req' = [req EXCEPT ![r] = IdleReq]
  /\ UNCHANGED <<now, punches, wt, created, audit, job, op, view>>

\* Time passes.  The instants of the model are the arrival times of requests:
\* the reads and the write of a handler fall within one of them, so the clock
\* moves while no handler is between its first read and its response.
Tick ==
  /\ \A r \in Reqs : req[r].pc \in {"idle", "done"}
  /\ job.pc \in {"idle", "done"}
  /\ op.pc \in {"idle", "done"}
  /\ view.pc \in {"idle", "done"}
  /\ \E t \in Instants : t > now /\ now' = t
  /\ UNCHANGED <<punches, req, wt, created, audit, job, op, view>>

Next ==
  \/ \E r \in Reqs, u \in Users : \E options \in Submissions(u) : createPunch(r, u, options)
  \/ \E r \in Reqs : createPunch_isDoublePunch(r)
  \/ \E r \in Reqs : createPunch_getNextPunchType(r)
  \/ \E r \in Reqs : createPunch_validatePunchSequence(r)
  \/ \E r \in Reqs : createPunch_findLastIn(r)
  \/ \E r \in Reqs : createPunch_sendWeekendPunchWarning(r)
  \/ \E r \in Reqs : createPunch_nfc(r)
  \/ \E r \in Reqs : createPunch_create(r)
  \/ \E r \in Reqs : respond(r)
  \/ Tick

Spec == Init /\ [][Next]_vars

-----------------------------------------------------------------------------
(* Claims about createPunch *)

Opposite(type) == IF type = "IN" THEN "OUT" ELSE "IN"

\* The positions in the log of the user's punches, and of those with the
\* greatest punchTime among a set of positions
Mine(u) == {i \in 1..Len(punches) : punches[i].userId = u}
MostRecent(I) == {i \in I : \A j \in I : punches[j].punchTime <= punches[i].punchTime}

\* C1: two createPunch submissions of one user that interleave while IN is the
\* user's next punch (both read the same last punch and both determine IN) are
\* never both accepted.
C1_ExactlyOneAccepted ==
  \A a \in Reqs, b \in Reqs :
    (/\ a # b
     /\ req[a].pc = "done" /\ req[b].pc = "done"
     /\ req[a].user = req[b].user
     /\ req[a].punchType = "IN" /\ req[b].punchType = "IN"
     /\ req[a].lastSeen = req[b].lastSeen)
    => ~(req[a].outcome = "Created" /\ req[b].outcome = "Created")

\* C2: the double-punch check rejects a submission, and stores nothing, exactly
\* when its punchTime is less than 60 seconds from the punchTime of the user's
\* most recent punch, whatever the type of that punch; 10 seconds after it the
\* submission is rejected, 61 seconds after it the submission passes the check.
C2_Gap(r, i) == Abs(req[r].punchTime - punches[i].punchTime)

C2_DoublePunchStep(r) ==
  LET within(ms) == \E i \in MostRecent(Mine(req[r].user)) : C2_Gap(r, i) < ms
      exactly(ms) == \E i \in MostRecent(Mine(req[r].user)) : C2_Gap(r, i) = ms
  IN  (req[r].pc = "isDoublePunch" /\ req'[r].pc # "isDoublePunch")
      => /\ (req'[r].outcome = "DoublePunch") <=> within(60 * MsPerSecond)
         /\ req'[r].outcome = "DoublePunch" => req'[r].pc = "done" /\ punches' = punches
         /\ req'[r].outcome # "DoublePunch" => req'[r].pc = "getNextPunchType"
         /\ exactly(10 * MsPerSecond) => req'[r].outcome = "DoublePunch"
         /\ exactly(61 * MsPerSecond) => req'[r].outcome # "DoublePunch"

Today(u) ==
  {i \in Mine(u) : LocalMs(punches[i].punchTime, getTimezone(u)) \div MsPerDay
                     = LocalMs(now, getTimezone(u)) \div MsPerDay}

C7_NextPunchTypeStep(r) ==
  (req[r].pc = "getNextPunchType" /\ req'[r].pc # "getNextPunchType")
  => IF Today(req[r].user) = {}
       THEN req'[r].punchType = "IN"
       ELSE \E i \in MostRecent(Today(req[r].user)) :
              req'[r].punchType = Opposite(punches[i].punchType)

C7_NextPunchType == [][\A r \in Reqs : C7_NextPunchTypeStep(r)]_vars

\* C8: validatePunchSequence, over the user's punches of the current local
\* day, accepts IN exactly on a day with no punch or whose last punch is OUT,
\* and OUT exactly when the day's last punch is IN, and names the error.
C8_Expected(dayLast, newPunchType) ==
  IF newPunchType = "IN"
    THEN IF dayLast \in {"NONE", "OUT"}
           THEN [valid |-> TRUE, error |-> ""]
           ELSE [valid |-> FALSE, error |-> "Cannot punch IN twice in a row"]
    ELSE IF dayLast = "IN"
           THEN [valid |-> TRUE, error |-> ""]
           ELSE IF dayLast = "NONE"
                  THEN [valid |-> FALSE, error |-> "First punch of the day must be IN"]
                  ELSE [valid |-> FALSE, error |-> "Cannot punch OUT twice in a row"]

C8_SequenceStep(r) ==
  LET u == req[r].user
      dayLasts == IF Today(u) = {} THEN {"NONE"}
                  ELSE {punches[i].punchType : i \in MostRecent(Today(u))}
  IN  (req[r].pc = "validatePunchSequence" /\ req'[r].pc # "validatePunchSequence")
      => \E dayLast \in dayLasts : req'[r].sequence = C8_Expected(dayLast, req[r].punchType)

C8_SequenceValidated == [][\A r \in Reqs : C8_SequenceStep(r)]_vars

\* Each of the three sequence errors has been reported to some request; the
\* log holds a punch
C8_Witness ==
  /\ punches # <<>>
  /\ \E r \in Reqs : /\ req[r].outcome = "ValidationError"
                     /\ req[r].error = "First punch of the day must be IN"
  /\ \E r \in Reqs : /\ req[r].outcome = "ValidationError"
                     /\ req[r].error \in {"Cannot punch IN twice in a row",
                                          "Cannot punch OUT twice in a row"}

\* C9: a createPunch call that meets a structural error (double punch or
\* sequence error) reports it, with valid = false for a sequence error, and
\* inserts nothing: only the step that completes an accepted call changes the log.
Validated(r) == req[r].pc \in {"sendWeekendPunchWarning", "nfc", "create", "done"}
                  /\ req[r].outcome # "DoublePunch"

C9_Rejected(r) ==
  /\ req[r].outcome \in {"DoublePunch", "ValidationError"} => req[r].pc = "done" /\ req[r].punchId = 0
  /\ Validated(r) /\ ~req[r].sequence.valid
       => /\ req[r].outcome = "ValidationError"
          /\ ~req[r].validation.valid
          /\ req[r].error = req[r].sequence.error

C9_NoInsertOnError ==
  /\ [](\A r \in Reqs : C9_Rejected(r))
  /\ [][\A r \in Reqs : req'[r] # req[r] /\ req'[r].outcome # "Created" => punches' = punches]_vars
  /\ [][punches' # punches => \E r \in Reqs : /\ req[r].outcome = "" /\ req'[r].outcome = "Created"
                                              /\ req[r].sequence.valid]_vars

\* A sequence error was reported while the log held a punch
C9_Witness ==
  \E r \in Reqs : /\ req[r].pc = "done" /\ req[r].outcome = "ValidationError"
                  /\ ~req[r].validation.valid /\ punches # <<>>

\* C10: policy warnings leave valid = true, do not keep the punch from being
\* inserted, and every warning raised is in the warnings the caller receives.
Elems(q) == {q[i] : i \in 1..Len(q)}

C10_Warned(r) ==
  LET v == req[r].validation.validations
  IN  (Validated(r) /\ req[r].sequence.valid)
      => /\ req[r].validation.valid
         /\ ~v.businessHours <=> "businessHours" \in Elems(req[r].warnings)
         /\ ~v.workingDay <=> "workingDay" \in Elems(req[r].warnings)
         /\ v.isLate <=> "late" \in Elems(req[r].warnings)
         /\ v.isEarly <=> "earlyDeparture" \in Elems(req[r].warnings)
         /\ req[r].pc = "done" => \/ /\ req[r].outcome = "Created"
                                     /\ req[r].punchId \in 1..Len(punches)
                                     /\ punches[req[r].punchId].punchTime = req[r].punchTime
                                  \/ req[r].outcome = "NfcError" /\ req[r].source = "NFC"

-----------------------------------------------------------------------------
(* TimeEngine.calculateWorkedTime on punch lists in ascending punchTime, as *)
(* the queries sorted by punchTime hand them to it                          *)

\* punchTimes of the lists: Fri 09:00, 12:00, 13:00, 17:00 UTC, and 24 hours
\* and 24 hours and a millisecond after the first
WtPunchTimes ==
  { At(1, 9, 0, 0, 0), At(1, 12, 0, 0, 0), At(1, 13, 0, 0, 0), At(1, 17, 0, 0, 0),
    At(2, 9, 0, 0, 0), At(2, 9, 0, 0, 1) }

\* Instants of evaluation: before every punch, 30 minutes after the 17:00
\* punch, and 16 hours and 16 hours and a millisecond after the 13:00 punch
WtNows == { At(1, 8, 0, 0, 0), At(1, 17, 30, 0, 0), At(2, 5, 0, 0, 0), At(2, 5, 0, 0, 1) }

\* The next punch of the list under construction
wtAppend(type, t) ==
  /\ wt.pc = "build"
  /\ Len(wt.punches) < MaxLen
  /\ wt.punches # <<>> => wt.punches[Len(wt.punches)].punchTime <= t
  /\ wt' = [wt EXCEPT !.punches = Append(@, [punchType |-> type, punchTime |-> t])]
  /\ UNCHANGED <<now, punches, req, created, audit, job, op, view>>

\* TimeEngine.calculateWorkedTime(punches, includeOpenPunch) called at instant t
wtEvaluate(includeOpenPunch, t) ==
  /\ wt.pc = "build"
  /\ wt' = [wt EXCEPT !.pc = "evaluated", !.includeOpenPunch = includeOpenPunch, !.at = t,
                      !.result = calculateWorkedTime(wt.punches, includeOpenPunch, t)]
  /\ UNCHANGED <<now, punches, req, created, audit, job, op, view>>

NextWT ==
  \/ \E type \in {"IN", "OUT"}, t \in WtPunchTimes : wtAppend(type, t)
  \/ \E includeOpenPunch \in BOOLEAN, t \in WtNows : wtEvaluate(includeOpenPunch, t)

SpecWT == Init /\ [][NextWT]_vars

\* The sessions the scan counts, read off the list: an OUT closes a session
\* exactly when the punch right before it is an IN, and the session counts
\* unless it is longer than 1440 minutes
SessionAt(ps, j) ==
  IF ps[j].punchType = "OUT" /\ ps[j - 1].punchType = "IN"
       /\ ps[j].punchTime - ps[j - 1].punchTime <= 1440 * MsPerMinute
    THEN ps[j].punchTime - ps[j - 1].punchTime
    ELSE 0

RECURSIVE SessionsUpTo(_, _)
SessionsUpTo(ps, n) == IF n < 2 THEN 0 ELSE SessionsUpTo(ps, n - 1) + SessionAt(ps, n)

ClosedSessions(ps) == SessionsUpTo(ps, Len(ps))

\* C3: without the open session, calculateWorkedTime is the sum of OUT - IN
\* over every OUT that follows a pending IN, the latest IN before it, sessions
\* above 1440 minutes left out; an empty list and a lone OUT give 0.
C3_ClosedSessionsSum ==
  (wt.pc = "evaluated" /\ ~wt.includeOpenPunch)
  => /\ wt.result = ClosedSessions(wt.punches)
     /\ Len(wt.punches) = 0 => wt.result = 0
     /\ (Len(wt.punches) = 1 /\ wt.punches[1].punchType = "OUT") => wt.result = 0

\* IN 09:00, IN 12:00, OUT 13:00, OUT 17:00 evaluated: the second IN replaced
\* the first, the second OUT had no pending IN, and 60 minutes were counted
C3_Witness ==
  /\ wt.pc = "evaluated" /\ ~wt.includeOpenPunch
  /\ wt.punches = <<[punchType |-> "IN", punchTime |-> At(1, 9, 0, 0, 0)],
                    [punchType |-> "IN", punchTime |-> At(1, 12, 0, 0, 0)],
                    [punchType |-> "OUT", punchTime |-> At(1, 13, 0, 0, 0)],
                    [punchType |-> "OUT", punchTime |-> At(1, 17, 0, 0, 0)]>>
  /\ wt.result = 60 * MsPerMinute

\* C4: [IN 09:00, OUT 12:00, IN 13:00, OUT 17:00] without the open session
\* gives 480 minutes.
C4_Example ==
  <<[punchType |-> "IN", punchTime |-> At(1, 9, 0, 0, 0)],
    [punchType |-> "OUT", punchTime |-> At(1, 12, 0, 0, 0)],
    [punchType |-> "IN", punchTime |-> At(1, 13, 0, 0, 0)],
    [punchType |-> "OUT", punchTime |-> At(1, 17, 0, 0, 0)]>>

\* The claim as stated: 480 minutes
C4_EightHours ==
  (wt.pc = "evaluated" /\ ~wt.includeOpenPunch /\ wt.punches = C4_Example)
  => wt.result = 480 * MsPerMinute

\* C4 (amended): [IN 09:00, OUT 12:00, IN 13:00, OUT 17:00] without the open
\* session gives 420 minutes, three hours and four hours.
C4_SevenHours ==
  (wt.pc = "evaluated" /\ ~wt.includeOpenPunch /\ wt.punches = C4_Example)
  => wt.result = 420 * MsPerMinute

C4_Witness == wt.pc = "evaluated" /\ ~wt.includeOpenPunch /\ wt.punches = C4_Example

\* C5: when the list ends with a pending IN, includeOpenSession = true adds
\* now - IN.time if that is at most 960 minutes and 480 minutes otherwise (the
\* total being floored at 0), and includeOpenSession = false adds nothing; an
\* IN 30 minutes ago gives 30 minutes.
C5_OpenSession ==
  (wt.pc = "evaluated" /\ wt.punches # <<>> /\ wt.punches[Len(wt.punches)].punchType = "IN")
  => LET elapsed == wt.at - wt.punches[Len(wt.punches)].punchTime
         added == IF elapsed <= 960 * MsPerMinute THEN elapsed ELSE 480 * MsPerMinute
     IN  /\ wt.includeOpenPunch => wt.result = Max(0, ClosedSessions(wt.punches) + added)
         /\ ~wt.includeOpenPunch => wt.result = ClosedSessions(wt.punches)
         /\ (wt.includeOpenPunch /\ Len(wt.punches) = 1 /\ elapsed = 30 * MsPerMinute)
              => wt.result = 30 * MsPerMinute

\* An open session of 16 hours and a millisecond was evaluated after a closed
\* session of three hours: 180 + 480 minutes
C5_Witness ==
  /\ wt.pc = "evaluated" /\ wt.includeOpenPunch
  /\ wt.punches = <<[punchType |-> "IN", punchTime |-> At(1, 9, 0, 0, 0)],
                    [punchType |-> "OUT", punchTime |-> At(1, 12, 0, 0, 0)],
                    [punchType |-> "IN", punchTime |-> At(1, 13, 0, 0, 0)]>>
  /\ wt.at = At(1, 13, 0, 0, 0) + 960 * MsPerMinute + 1
  /\ wt.result = (180 + 480) * MsPerMinute

\* C6: calculateWorkedTime is at least 0 and at most the span from the first
\* punch to the last (to now, when an open session is included and now is
\* later) plus the 480-minute fallback.
C6_Bounded ==
  wt.pc = "evaluated"
  => /\ wt.result >= 0
     /\ wt.punches = <<>> => wt.result = 0
     /\ wt.punches # <<>>
          => LET first == wt.punches[1].punchTime
                 last == wt.punches[Len(wt.punches)].punchTime
                 end == IF wt.includeOpenPunch /\ wt.punches[Len(wt.punches)].punchType = "IN"
                          THEN Max(last, wt.at) ELSE last
             IN  wt.result <= (end - first) + 480 * MsPerMinute

\* An open session started after the instant of evaluation was floored at 0,
\* and so was a list that holds one
C6_Witness ==
  /\ wt.pc = "evaluated" /\ wt.includeOpenPunch
  /\ wt.punches # <<>>
  /\ wt.punches[Len(wt.punches)].punchType = "IN"
  /\ wt.at < wt.punches[Len(wt.punches)].punchTime
  /\ wt.result = 0

-----------------------------------------------------------------------------
(* PunchCleanupService: the scheduler jobs, one action per await.  The jobs  *)
(* run from cron and from the admin routes, so at any instant; they          *)
(* interleave with the createPunch calls of one request slot.                *)

MaxAutoClosed == 2

JobReqs == {"r1"}

\* User.find({ status: 'Active' }): the users of the model are all active
ActiveUsers == <<"u1", "u2">>

AutoCloseNote == "Auto-closed by system at midnight (missed punch out)"

\* A find sorted by punchTime ascending: every order of S in which punchTime
\* never decreases (documents of equal punchTime come in any order)
RECURSIVE SortedByTime(_)
SortedByTime(S) ==
  IF S = {}
    THEN {<<>>}
    ELSE UNION {{<<p>> \o rest : rest \in SortedByTime(S \ {p})} :
                  p \in {x \in S : \A y \in S : x.punchTime <= y.punchTime}}

\* autoCloseTime taken as the end of the day itself
autoCloseTime_EndOfDay(t, tz) == endOfDay(t, tz)

\* today.clone().endOf('day').subtract(1, 'minute')
autoCloseTime(t, tz) == endOfDay(t, tz) - MsPerMinute

\* The document of the auto-close PunchLog.create
autoPunch(u, t, id) ==
  [NoPunch EXCEPT !.id = id, !.userId = u, !.punchType = "OUT", !.punchTime = t,
                  !.source = "Admin", !.notes = [text |-> AutoCloseNote, late |-> 0 - 1]]

AutoClosed(log) == {i \in 1..Len(log) : log[i].source = "Admin" /\ log[i].notes.text = AutoCloseNote}

\* The end of a job: its result; n punches have been created so far
JobReturn(j, n) ==
  [j EXCEPT !.pc = "done", !.outcome = "success",
            !.closedAt = IF j.kind = "autoClose"
                           THEN IF n = j.startedAt + j.closedCount THEN n ELSE 0 - 1
                           ELSE @]

\* A job whose loop lets the error of one user escape: catch (error) { throw error }
JobThrow(j) == [j EXCEPT !.pc = "done", !.outcome = "failed", !.failedUser = j.user]

\* The auto-close loop moves to its next user, or to the notifications
autoClose_next(j, n) ==
  IF Len(j.queue) > 1
    THEN [j EXCEPT !.pc = "autoClose_find", !.queue = Tail(@)]
    ELSE IF j.notifications = <<>>
      THEN JobReturn([j EXCEPT !.queue = <<>>], n)
      ELSE [j EXCEPT !.pc = "autoClose_notify",
                     !.queue = [i \in 1..Len(j.notifications) |-> j.notifications[i].user]]

\* static async autoCloseOpenPunches(): await User.find({ status: 'Active' })
autoCloseOpenPunches ==
  /\ job.pc = "idle"
  /\ job' = [IdleJob EXCEPT !.pc = "autoClose_find", !.kind = "autoClose", !.queue = ActiveUsers,
                            !.closedAt = job.closedAt, !.startedAt = created,
                            !.rerun = (job.closedAt = created)]
  /\ UNCHANGED <<now, punches, req, wt, created, audit, op, view>>

\* for (const user of users): await PunchLog.find({...today...}).sort({ punchTime: 1 })
autoClose_find ==
  /\ job.pc = "autoClose_find"
  /\ LET u == Head(job.queue)
         tz == getTimezone(u)
         todayPunches == getTodayPunches(punches, u, tz, now)
     IN  IF todayPunches = {}
           THEN job' = autoClose_next([job EXCEPT !.user = u, !.lastSeen = NoPunch], created)
           ELSE \E lastPunch \in Latest(todayPunches) :
                  job' = IF lastPunch.punchType = "IN"
                           THEN [job EXCEPT !.pc = "autoClose_create", !.user = u, !.lastSeen = lastPunch,
                                            !.autoCloseTime = autoCloseTime(now, tz)]
                           ELSE autoClose_next([job EXCEPT !.user = u, !.lastSeen = lastPunch], created)
  /\ UNCHANGED <<now, punches, req, wt, created, audit, op, view>>

\* await PunchLog.create({...}); closedCount++; notifications.push(...).  The
\* write can fail, and nothing in the loop catches it.
autoClose_create ==
  /\ job.pc = "autoClose_create"
  /\ Cardinality({i \in 1..Len(punches) : punches[i].source = "Admin"}) < MaxAutoClosed
  /\ \E written \in BOOLEAN :
       IF written
         THEN /\ punches' = Append(punches, autoPunch(job.user, job.autoCloseTime, created + 1))
              /\ created' = created + 1
              /\ job' = autoClose_next(
                          [job EXCEPT !.closedCount = @ + 1,
                                      !.notifications = Append(@, [user |-> job.user,
                                                                   inPunchTime |-> job.lastSeen.punchTime,
                                                                   outPunchTime |-> job.autoCloseTime])],
                          created')
         ELSE /\ job' = JobThrow(job)
              /\ UNCHANGED <<punches, created, view>>
  /\ UNCHANGED <<now, req, wt, audit, op, view>>

\* A notification whose failure escapes the loop
notified_Throw(j, delivered, n) ==
  IF ~delivered
    THEN [j EXCEPT !.pc = "done", !.outcome = "failed", !.mailFailed = @ \cup {Head(j.queue)}]
    ELSE LET k == [j EXCEPT !.queue = Tail(@)]
         IN  IF k.queue = <<>> THEN JobReturn(k, n) ELSE k

\* try { await EmailService.send...(...) } catch (error) { logger.error(...) }
\* for the user at the head of the queue; after the last one the job returns
notified(j, delivered, n) ==
  LET k == [j EXCEPT !.queue = Tail(@),
                     !.mailFailed = IF delivered THEN @ ELSE @ \cup {Head(j.queue)},
                     !.remindersSent = IF delivered /\ j.kind = "reminders" THEN @ + 1 ELSE @]
  IN  IF k.queue = <<>> THEN JobReturn(k, n) ELSE k

\* for (const notification of notifications): sendMissedPunchOutAlert
autoClose_notify ==
  /\ job.pc = "autoClose_notify"
  /\ \E delivered \in BOOLEAN :
       job' = notified(job, delivered, created)
  /\ UNCHANGED <<now, punches, req, wt, created, audit, op, view>>

\* Math.round(hoursSinceIn * 10) for an open punch read at instant t
hoursSinceIn10(t, punchTime) == (2 * 10 * (t - punchTime) + MsPerHour) \div (2 * MsPerHour)

ReminderAfterHours == 8

\* The reminder loop moves to its next user, or to the sending of reminders
\* to the users whose open punch is at least 8 hours old
reminders_next(j, n) ==
  IF Len(j.queue) > 1
    THEN [j EXCEPT !.pc = "reminders_find", !.queue = Tail(@)]
    ELSE LET due == SelectSeq(j.notifications, LAMBDA x : x.hoursSinceIn10 >= ReminderAfterHours * 10)
         IN  IF due = <<>>
               THEN JobReturn([j EXCEPT !.queue = <<>>], n)
               ELSE [j EXCEPT !.pc = "reminders_send", !.queue = [i \in 1..Len(due) |-> due[i].user]]

\* static async sendPunchOutReminders(): findUsersWithOpenPunches, User.find
sendPunchOutReminders ==
  /\ job.pc = "idle"
  /\ job' = [IdleJob EXCEPT !.pc = "reminders_find", !.kind = "reminders", !.queue = ActiveUsers,
                            !.closedAt = job.closedAt]
  /\ UNCHANGED <<now, punches, req, wt, created, audit, op, view>>

\* findUsersWithOpenPunches: await PunchLog.find({...today...}) of one user
reminders_find ==
  /\ job.pc = "reminders_find"
  /\ LET u == Head(job.queue)
         todayPunches == getTodayPunches(punches, u, getTimezone(u), now)
     IN  IF todayPunches = {}
           THEN job' = reminders_next([job EXCEPT !.user = u, !.lastSeen = NoPunch], created)
           ELSE \E lastPunch \in Latest(todayPunches) :
                  job' = reminders_next(
                           [job EXCEPT !.user = u, !.lastSeen = lastPunch,
                                       !.notifications =
                                          IF lastPunch.punchType = "IN"
                                            THEN Append(@, [user |-> u, inPunchTime |-> lastPunch.punchTime,
                                                            hoursSinceIn10 |-> hoursSinceIn10(now, lastPunch.punchTime)])
                                            ELSE @],
                           created)
  /\ UNCHANGED <<now, punches, req, wt, created, audit, op, view>>

\* try { await User.findById; await EmailService.sendPunchOutReminder; remindersSent++ } catch
reminders_send ==
  /\ job.pc = "reminders_send"
  /\ \E delivered \in BOOLEAN : job' = notified(job, delivered, created)
  /\ UNCHANGED <<now, punches, req, wt, created, audit, op, view>>

OrphanReason(expectedNext, punchType) == "Expected " \o expectedNext \o " but got " \o punchType

OrphanNote(orphan) == "[SYSTEM] Orphaned " \o orphan.punchType \o " punch - " \o orphan.reason

\* The scan with expectedNext toggled from the expected type, not the actual one
RECURSIVE OrphanScan_Cascade(_, _, _)
OrphanScan_Cascade(ps, i, expectedNext) ==
  IF i > Len(ps)
    THEN <<>>
    ELSE (IF ps[i].punchType # expectedNext
            THEN <<[punchId |-> ps[i].id, userId |-> ps[i].userId, punchType |-> ps[i].punchType,
                    punchTime |-> ps[i].punchTime, reason |-> OrphanReason(expectedNext, ps[i].punchType)]>>
            ELSE <<>>)
         \o OrphanScan_Cascade(ps, i + 1, IF expectedNext = "IN" THEN "OUT" ELSE "IN")

\* The scan of cleanupOrphanedPunches over one user's punches from punch i on
RECURSIVE OrphanScan(_, _, _)
OrphanScan(ps, i, expectedNext) ==
  IF i > Len(ps)
    THEN <<>>
    ELSE (IF ps[i].punchType # expectedNext
            THEN <<[punchId |-> ps[i].id, userId |-> ps[i].userId, punchType |-> ps[i].punchType,
                    punchTime |-> ps[i].punchTime, reason |-> OrphanReason(expectedNext, ps[i].punchType)]>>
            ELSE <<>>)
         \o OrphanScan(ps, i + 1, IF ps[i].punchType = "IN" THEN "OUT" ELSE "IN")

CleanupWindowDays == 30

\* PunchLog.find({ punchTime: { $gte: startDate, $lte: endDate } }) with startDate
\* the start of the local day `days` days before t and endDate the end of t's
\* local day; the lower bound is compared in whole local days
PunchesSinceDays(log, u, days, t, tz) ==
  {p \in PunchesOf(log, u) :
     /\ LocalMs(p.punchTime, tz) \div MsPerDay >= (LocalMs(t, tz) \div MsPerDay) - days
     /\ p.punchTime <= endOfDay(t, tz)}

\* The cleanup loop moves to its next user, or to the marking of the orphans
cleanup_next(j, n) ==
  IF Len(j.queue) > 1
    THEN [j EXCEPT !.pc = "cleanup_find", !.queue = Tail(@)]
    ELSE IF ~j.dryRun /\ Len(j.orphanedPunches) > 0
      THEN [j EXCEPT !.pc = "cleanup_mark", !.queue = <<>>, !.unmarked = j.orphanedPunches]
      ELSE JobReturn([j EXCEPT !.queue = <<>>], n)

\* static async cleanupOrphanedPunches(dryRun = true): await User.find
cleanupOrphanedPunches(dryRun) ==
  /\ job.pc = "idle"
  /\ job' = [IdleJob EXCEPT !.pc = "cleanup_find", !.kind = "cleanup", !.dryRun = dryRun,
                            !.queue = ActiveUsers, !.closedAt = job.closedAt,
                            !.startedAt = created]
  /\ UNCHANGED <<now, punches, req, wt, created, audit, op, view>>

\* await PunchLog.find({...last 30 days...}).sort({ punchTime: 1 }) and the scan
cleanup_find ==
  /\ job.pc = "cleanup_find"
  /\ LET u == Head(job.queue)
         tz == getTimezone(u)
         found == PunchesSinceDays(punches, u, CleanupWindowDays, now, tz)
     IN  \E ps \in SortedByTime(found) :
           job' = cleanup_next([job EXCEPT !.user = u,
                                           !.orphanedPunches = @ \o OrphanScan(ps, 1, "IN")], created)
  /\ UNCHANGED <<now, punches, req, wt, created, audit, op, view>>

\* await PunchLog.findByIdAndUpdate(orphan.punchId, { notes }); a failed
\* update escapes the loop
cleanup_mark ==
  /\ job.pc = "cleanup_mark"
  /\ \E written \in BOOLEAN :
       IF written
         THEN LET orphan == Head(job.unmarked)
              IN  /\ punches' = [i \in 1..Len(punches) |->
                                   IF punches[i].id = orphan.punchId
                                     THEN [punches[i] EXCEPT !.notes = [text |-> OrphanNote(orphan),
                                                                       late |-> 0 - 1]]
                                     ELSE punches[i]]
                  /\ job' = IF Len(job.unmarked) > 1
                              THEN [job EXCEPT !.unmarked = Tail(@)]
                              ELSE JobReturn([job EXCEPT !.unmarked = <<>>], created)
         ELSE /\ job' = [JobThrow(job) EXCEPT !.failedUser = Head(job.unmarked).userId]
              /\ UNCHANGED punches
  /\ UNCHANGED <<now, req, wt, created, audit, op, view>>

\* The run is over: its result is logged or sent, and the slot is free
jobDone ==
  /\ job.pc = "done"
  /\ job' = [IdleJob EXCEPT !.closedAt = job.closedAt]
  /\ UNCHANGED <<now, punches, req, wt, created, audit, op, view>>

NextCleanup ==
  \/ \E r \in JobReqs, u \in Users : \E options \in Submissions(u) : createPunch(r, u, options)
  \/ \E r \in JobReqs : createPunch_isDoublePunch(r)
  \/ \E r \in JobReqs : createPunch_getNextPunchType(r)
  \/ \E r \in JobReqs : createPunch_validatePunchSequence(r)
  \/ \E r \in JobReqs : createPunch_findLastIn(r)
  \/ \E r \in JobReqs : createPunch_sendWeekendPunchWarning(r)
  \/ \E r \in JobReqs : createPunch_nfc(r)
  \/ \E r \in JobReqs : createPunch_create(r)
  \/ \E r \in JobReqs : respond(r)
  \/ Tick
  \/ autoCloseOpenPunches
  \/ autoClose_find
  \/ autoClose_create
  \/ autoClose_notify
  \/ sendPunchOutReminders
  \/ reminders_find
  \/ reminders_send
  \/ \E dryRun \in BOOLEAN : cleanupOrphanedPunches(dryRun)
  \/ cleanup_find
  \/ cleanup_mark
  \/ jobDone

SpecCleanup == Init /\ [][NextCleanup]_vars

-----------------------------------------------------------------------------
(* Claims about the scheduler jobs *)

JobStep == job' # job

\* The local time of day of instant t and its local day number
LocalTimeOfDay(t, tz) == LocalMs(t, tz) % MsPerDay
LocalDay(t, tz) == LocalMs(t, tz) \div MsPerDay

\* C11: auto-close schedules a write for a user exactly when the last punch it
\* read of the user's local day is an IN (never for an empty day or a last
\* OUT); the write appends exactly one OUT punch of that user with source
\* Admin, the 'Auto-closed by system ...' note and punchTime 23:58:59.999 of
\* the user's local day (end of day minus one minute); a run that returns
\* has closed each such user once.
C11_AutoCloseStep ==
  /\ (job.pc = "autoClose_find" /\ JobStep) =>
       LET u == Head(job.queue)
           today == getTodayPunches(punches, u, getTimezone(u), now)
       IN  /\ punches' = punches
           /\ job'.user = u
           /\ (job'.pc = "autoClose_create") <=>
                (today # {} /\ job'.lastSeen \in Latest(today) /\ job'.lastSeen.punchType = "IN")
           /\ (today = {} \/ \A p \in Latest(today) : p.punchType = "OUT") =>
                job'.pc # "autoClose_create"
  /\ (job.pc = "autoClose_create" /\ JobStep) =>
       \/ job'.outcome = "failed" /\ punches' = punches
       \/ /\ Len(punches') = Len(punches) + 1
          /\ SubSeq(punches', 1, Len(punches)) = punches
          /\ LET p == punches'[Len(punches')]
                 tz == getTimezone(job.user)
             IN  /\ p.userId = job.user
                 /\ p.punchType = "OUT"
                 /\ p.source = "Admin"
                 /\ p.notes.text = "Auto-closed by system at midnight (missed punch out)"
                 /\ LocalDay(p.punchTime, tz) = LocalDay(now, tz)
                 /\ LocalTimeOfDay(p.punchTime, tz) = (23 * 60 + 58) * MsPerMinute + 59 * MsPerSecond + 999
                 /\ \A i \in 1..Len(punches) : punches[i].id # p.id
          /\ job'.closedCount = job.closedCount + 1
  /\ (job.kind = "autoClose" /\ job.pc \notin {"autoClose_find", "autoClose_create"} /\ JobStep) =>
       punches' = punches

C12_AutoCloseIdempotent ==
  (/\ job.kind = "autoClose" /\ job.pc = "done" /\ job.outcome = "success"
   /\ job.rerun
   /\ created = job.startedAt + job.closedCount)
  => job.closedCount = 0

\* C13: a job that has ended has returned its counts and has gone through all
\* its users, also when the write for one user failed.
C13_FailureIsolated ==
  job.pc = "done" => (job.outcome = "success" /\ job.queue = <<>>)

\* The punches of user u on the local day of instant t
OnDay(u, t) ==
  {i \in 1..Len(punches) :
     punches[i].userId = u /\ LocalDay(punches[i].punchTime, getTimezone(u)) = LocalDay(t, getTimezone(u))}

\* C14: on no local day does a user's log hold both an OUT the user submitted
\* and an auto-close OUT while it holds a single IN for them.
C14_NoDoubleOut ==
  \A u \in Users : \A i \in AutoClosed(punches) :
    (punches[i].userId = u
     /\ \E k \in OnDay(u, punches[i].punchTime) :
          punches[k].punchType = "OUT" /\ k \notin AutoClosed(punches))
    => Cardinality({k \in OnDay(u, punches[i].punchTime) : punches[k].punchType = "IN"}) >= 2

\* C15: a createPunch call whose weekend mail failed still ends with its
\* punch stored (an NFC tag error aside); an auto-close run with a failed
\* alert still returns success with every OUT it wrote in the log; a reminder
\* run with a failed mail still returns success.
C15_NotificationBestEffort ==
  /\ \A r \in Reqs :
       (req[r].pc = "done" /\ req[r].mail = "failed") =>
         \/ req[r].outcome = "NfcError" /\ req[r].source = "NFC"
         \/ /\ req[r].outcome = "Created"
            /\ \E i \in 1..Len(punches) : punches[i].id = req[r].punchId /\ punches[i].userId = req[r].user
  /\ (job.pc = "done" /\ job.mailFailed # {}) =>
       /\ job.outcome = "success"
       /\ job.kind = "autoClose" =>
            /\ job.closedCount = Len(job.notifications)
            /\ \A k \in 1..Len(job.notifications) :
                 \E i \in AutoClosed(punches) :
                   /\ punches[i].userId = job.notifications[k].user
                   /\ punches[i].punchTime = job.notifications[k].outPunchTime
  /\ (job.pc \in {"autoClose_notify", "reminders_send"} /\ job.mailFailed # {}) =>
       job.outcome = ""

\* An auto-close run returned after its alert failed, a reminder run after its
\* mail failed, and a punch was created after its weekend mail failed
C15_Witness ==
  /\ job.pc = "done" /\ job.kind = "autoClose" /\ job.mailFailed # {} /\ job.closedCount >= 1
  /\ \E r \in Reqs : req[r].pc = "done" /\ req[r].mail = "failed" /\ req[r].outcome = "Created"

-----------------------------------------------------------------------------
(* PUT and DELETE /api/punch/:punchId: PunchService.editPunch and            *)
(* deletePunch, one action per await, on a log of two punches.               *)

MaxAudit == 2

\* The actors: the two employees and an administrator
Actors == {"u1", "u2", "a1"}
Role(actor) == IF actor = "a1" THEN "Admin" ELSE "User"

\* The bodies of the edit requests: a new time (Fri 08:30 IST), or a new type
\* and time (IN at Fri 09:30 IST)
EditRequests ==
  { [punchTime |-> At(1, 3, 0, 0, 0), punchType |-> ""],
    [punchTime |-> At(1, 4, 0, 0, 0), punchType |-> "IN"] }

Reasons == {"", "forgot to punch"}

\* PunchLog.findById
findById(log, id) ==
  IF \E i \in 1..Len(log) : log[i].id = id
    THEN log[CHOOSE i \in 1..Len(log) : log[i].id = id]
    ELSE NoPunch

\* punch.save() and findByIdAndUpdate: the document of that id is replaced
saved(log, doc) == [i \in 1..Len(log) |-> IF log[i].id = doc.id THEN doc ELSE log[i]]

\* punch.deleteOne()
deleted(log, id) == SelectSeq(log, LAMBDA p : p.id # id)

\* A request validation that lets an empty editReason through
punchEditValidation_Optional(reason) == TRUE

\* body('editReason').notEmpty()
punchEditValidation(reason) == reason # ""

\* A permission check that lets every actor through
canEdit_Anyone(actor, punch) == TRUE

\* performedBy.role !== 'Admin' && punch.userId.toString() !== performedBy._id.toString()
canEdit(actor, punch) == Role(actor) = "Admin" \/ punch.userId = actor

\* The update that captures the current values as original at every edit
edited_OverwriteOriginal(punch, editData, editReason, actor, t) ==
  [punch EXCEPT !.originalPunchTime = punch.punchTime,
                !.originalPunchType = punch.punchType,
                !.punchTime = IF editData.punchTime # 0 THEN editData.punchTime ELSE @,
                !.punchType = IF editData.punchType # "" THEN editData.punchType ELSE @,
                !.edited = TRUE, !.editedBy = actor, !.editedAt = t, !.editReason = editReason]

\* The in-memory update of editPunch: original values, new values, edit tracking
edited(punch, editData, editReason, actor, t) ==
  [punch EXCEPT !.originalPunchTime = IF @ # 0 THEN @ ELSE punch.punchTime,
                !.originalPunchType = IF @ # "" THEN @ ELSE punch.punchType,
                !.punchTime = IF editData.punchTime # 0 THEN editData.punchTime ELSE @,
                !.punchType = IF editData.punchType # "" THEN editData.punchType ELSE @,
                !.edited = TRUE, !.editedBy = actor, !.editedAt = t, !.editReason = editReason]

OpFail(o, status, message) == [o EXCEPT !.pc = "done", !.outcome = "error", !.status = status, !.error = message]
OpOk(o) == [o EXCEPT !.pc = "done", !.outcome = "ok", !.status = 200]

\* router.put('/:punchId', protect, punchEditValidation, ...)
editRequest(actor, punchId, editData, editReason) ==
  /\ op.pc = "idle"
  /\ Len(audit) < MaxAudit
  /\ LET o == [IdleOp EXCEPT !.kind = "edit", !.actor = actor, !.punchId = punchId,
                             !.editData = editData, !.reason = editReason]
     IN  op' = IF punchEditValidation(editReason)
                 THEN [o EXCEPT !.pc = "edit_findById"]
                 ELSE OpFail(o, 400, "Edit reason is required")
  /\ UNCHANGED <<now, punches, req, wt, created, audit, job, view>>

\* const punch = await PunchLog.findById(punchId); the checks and the update in memory
editPunch_findById ==
  /\ op.pc = "edit_findById"
  /\ LET punch == findById(punches, op.punchId)
     IN  op' = IF punch = NoPunch
                 THEN OpFail(op, 500, "Punch not found.")
                 ELSE IF ~canEdit(op.actor, punch)
                   THEN OpFail([op EXCEPT !.punch = punch], 500, "Not authorized to edit this punch.")
                   ELSE [op EXCEPT !.pc = "edit_save",
                                   !.previousState = [punchTime |-> punch.punchTime,
                                                      punchType |-> punch.punchType],
                                   !.punch = edited(punch, op.editData, op.reason, op.actor, now)]
  /\ UNCHANGED <<now, punches, req, wt, created, audit, job, view>>

\* await punch.save()
editPunch_save ==
  /\ op.pc = "edit_save"
  /\ punches' = saved(punches, op.punch)
  /\ op' = [op EXCEPT !.pc = "edit_audit"]
  /\ UNCHANGED <<now, req, wt, created, audit, job, view>>

\* await AuditLog.log({ action: 'PUNCH_EDIT', ... }): the write can fail
editPunch_audit ==
  /\ op.pc = "edit_audit"
  /\ \E written \in BOOLEAN :
       IF written
         THEN /\ audit' = Append(audit, [action |-> "PUNCH_EDIT", performedBy |-> op.actor,
                                         targetUser |-> op.punch.userId, resourceId |-> op.punch.id,
                                         previousState |-> op.previousState,
                                         newState |-> [punchTime |-> op.punch.punchTime,
                                                       punchType |-> op.punch.punchType],
                                         description |-> op.reason])
              /\ op' = OpOk(op)
         ELSE /\ op' = OpFail(op, 500, "AuditLog write failed")
              /\ UNCHANGED audit
  /\ UNCHANGED <<now, punches, req, wt, created, job, view>>

\* router.delete('/:punchId', protect, authorize('Admin'), ...): if (!reason) 400
deleteRequest(actor, punchId, reason) ==
  /\ op.pc = "idle"
  /\ Len(audit) < MaxAudit
  /\ LET o == [IdleOp EXCEPT !.kind = "delete", !.actor = actor, !.punchId = punchId, !.reason = reason]
     IN  op' = IF Role(actor) # "Admin"
                 THEN OpFail(o, 403, "Role 'User' is not authorized to access this resource.")
                 ELSE IF reason = ""
                   THEN OpFail(o, 400, "Deletion reason is required")
                   ELSE [o EXCEPT !.pc = "delete_findById"]
  /\ UNCHANGED <<now, punches, req, wt, created, audit, job, view>>

\* const punch = await PunchLog.findById(punchId)
deletePunch_findById ==
  /\ op.pc = "delete_findById"
  /\ LET punch == findById(punches, op.punchId)
     IN  op' = IF punch = NoPunch
                 THEN OpFail(op, 500, "Punch not found.")
                 ELSE [op EXCEPT !.pc = "delete_audit", !.punch = punch]
  /\ UNCHANGED <<now, punches, req, wt, created, audit, job, view>>

\* A deletePunch that goes on to deleteOne whether the audit was written or not
deleteAudited_Ignored(o, written) == [o EXCEPT !.pc = "delete_deleteOne"]

\* deletePunch once AuditLog.log has settled: a rejection leaves the function
deleteAudited(o, written) ==
  IF written THEN [o EXCEPT !.pc = "delete_deleteOne"] ELSE OpFail(o, 500, "AuditLog write failed")

\* await AuditLog.log({ action: 'PUNCH_DELETE', previousState: punch.toObject(), ... })
deletePunch_audit ==
  /\ op.pc = "delete_audit"
  /\ \E written \in BOOLEAN :
       /\ audit' = IF written
                     THEN Append(audit, [action |-> "PUNCH_DELETE", performedBy |-> op.actor,
                                         targetUser |-> op.punch.userId, resourceId |-> op.punch.id,
                                         previousState |-> op.punch, newState |-> NoState,
                                         description |-> op.reason])
                     ELSE audit
       /\ op' = deleteAudited(op, written)
  /\ UNCHANGED <<now, punches, req, wt, created, job, view>>

\* await punch.deleteOne()
deletePunch_deleteOne ==
  /\ op.pc = "delete_deleteOne"
  /\ punches' = deleted(punches, op.punch.id)
  /\ op' = OpOk(op)
  /\ UNCHANGED <<now, req, wt, created, audit, job, view>>

\* The response is sent and the slot is free
opDone ==
  /\ op.pc = "done"
  /\ op' = IdleOp
  /\ UNCHANGED <<now, punches, req, wt, created, audit, job, view>>

\* The log the edits start from: u1 punched IN on Fri at 09:00:00 IST and OUT
\* 61 s later, as createPunch stores them; the clock stands at the OUT
EditedLog ==
  << [NoPunch EXCEPT !.id = 1, !.userId = "u1", !.punchType = "IN", !.punchTime = At(1, 3, 30, 0, 0),
                     !.source = "Manual", !.notes = [text |-> "memo", late |-> 0 - 1]],
     [NoPunch EXCEPT !.id = 2, !.userId = "u1", !.punchType = "OUT", !.punchTime = At(1, 3, 31, 1, 0),
                     !.source = "Manual", !.notes = [text |-> "memo", late |-> 0 - 1]] >>

InitEdit ==
  /\ now = At(1, 3, 31, 1, 0)
  /\ punches = EditedLog
  /\ req = [r \in Reqs |-> IdleReq]
  /\ wt = IdleWt
  /\ created = Len(EditedLog)
  /\ audit = <<>>
  /\ job = IdleJob
  /\ op = IdleOp
  /\ view = IdleView

NextEdit ==
  \/ \E actor \in Actors, punchId \in 1..MaxPunches + 1, editData \in EditRequests, editReason \in Reasons :
       editRequest(actor, punchId, editData, editReason)
  \/ editPunch_findById
  \/ editPunch_save
  \/ editPunch_audit
  \/ \E actor \in Actors, punchId \in 1..MaxPunches + 1, reason \in Reasons : deleteRequest(actor, punchId, reason)
  \/ deletePunch_findById
  \/ deletePunch_audit
  \/ deletePunch_deleteOne
  \/ opDone

SpecEdit == InitEdit /\ [][NextEdit]_vars

-----------------------------------------------------------------------------
(* Claims about edits, deletions and the audit log *)

Ids(log) == {log[i].id : i \in 1..Len(log)}

OpStep == op' # op

AuthorizationErrors ==
  {"Not authorized to edit this punch.", "Role 'User' is not authorized to access this resource."}

\* C16: a punch that has never been edited has no original values; the first
\* edit stores the punchTime and punchType the punch had until then, and no
\* later step changes originalPunchTime or originalPunchType again.
C16_OriginalStep ==
  \A id \in Ids(punches) \cap Ids(punches') :
    LET p == findById(punches, id)
        q == findById(punches', id)
    IN  /\ p.edited <=> (p.originalPunchTime # 0 /\ p.originalPunchType # "")
        /\ p.edited => (q.edited /\ q.originalPunchTime = p.originalPunchTime
                                 /\ q.originalPunchType = p.originalPunchType)
        /\ (~p.edited /\ q.edited) => (q.originalPunchTime = p.punchTime
                                       /\ q.originalPunchType = p.punchType)

C16_OriginalKept == [][C16_OriginalStep]_vars

\* Punch 2 has been edited twice, its time and its type differ from the
\* original ones, and the original ones are those of its creation
C16_Witness ==
  /\ Len(audit) = 2
  /\ \A k \in 1..2 : audit[k].action = "PUNCH_EDIT" /\ audit[k].resourceId = 2
  /\ LET p == findById(punches, 2)
     IN  /\ p.edited
         /\ p.originalPunchTime = EditedLog[2].punchTime /\ p.originalPunchType = "OUT"
         /\ p.punchTime # p.originalPunchTime /\ p.punchType = "IN"
         /\ audit[2].previousState.punchTime # p.originalPunchTime

\* C17: a step of an edit or a delete changes the log or the audit log only
\* for an Admin or the owner of the punch; the edit of an existing punch by
\* another user ends with 'Not authorized to edit this punch.', a delete by a
\* non-admin with the 403 of the route, and neither has changed anything.
C17_OwnerOrAdminStep ==
  /\ (OpStep /\ (punches' # punches \/ audit' # audit)) =>
       (Role(op.actor) = "Admin" \/ op.punch.userId = op.actor)
  /\ (op'.pc = "done" /\ op.pc # "done" /\ Role(op'.actor) # "Admin") =>
       /\ (op'.kind = "edit" /\ op'.reason # "" /\ op'.punchId \in Ids(punches)
           /\ findById(punches, op'.punchId).userId # op'.actor) =>
            (op'.outcome = "error" /\ op'.error = "Not authorized to edit this punch.")
       /\ op'.kind = "delete" =>
            (op'.outcome = "error" /\ op'.status = 403 /\ op'.error \in AuthorizationErrors)
       /\ op'.error \in AuthorizationErrors => (punches' = punches /\ audit' = audit)

C17_OwnerOrAdmin == [][C17_OwnerOrAdminStep]_vars

\* u2 was refused the edit of a punch of u1, and nothing has changed
C17_Witness ==
  /\ op.pc = "done" /\ op.kind = "edit" /\ op.actor = "u2"
  /\ op.error = "Not authorized to edit this punch."
  /\ op.punch.userId = "u1"
  /\ punches = EditedLog /\ audit = <<>>

\* C18: the step that removes a punch finds in the audit log a PUNCH_DELETE
\* record of that punch holding the document as it is removed; a delete
\* whose audit write failed ends with the punch still in the log; every punch
\* ever created that is no longer in the log has its PUNCH_DELETE record.
C18_Audited(log, trail, n) ==
  \A id \in (1..n) \ Ids(log) :
    \E k \in 1..Len(trail) : trail[k].action = "PUNCH_DELETE" /\ trail[k].resourceId = id

C18_DeleteStep ==
  /\ \A id \in Ids(punches) \ Ids(punches') :
       \E k \in 1..Len(audit) :
         /\ audit[k].action = "PUNCH_DELETE"
         /\ audit[k].resourceId = id
         /\ audit[k].previousState = findById(punches, id)
         /\ audit[k].targetUser = findById(punches, id).userId
         /\ audit[k].performedBy = op.actor
         /\ audit[k].description = op.reason
  /\ (op.pc = "delete_audit" /\ OpStep /\ audit' = audit) =>
       (op'.pc = "done" /\ op'.outcome = "error" /\ punches' = punches)
  /\ C18_Audited(punches', audit', created')

C18_AuditBeforeDelete == [][C18_DeleteStep]_vars

\* A punch has been deleted after its audit record was written, and another
\* delete has ended on a failed audit write with its punch still there
C18_Witness ==
  /\ Len(punches) = 1
  /\ \E k \in 1..Len(audit) : audit[k].action = "PUNCH_DELETE" /\ audit[k].resourceId \notin Ids(punches)
  /\ op.pc = "done" /\ op.kind = "delete" /\ op.error = "AuditLog write failed"
  /\ op.punch.id \in Ids(punches)

\* C19: while no edit is between its save and its audit write, every edited
\* punch in the log has a PUNCH_EDIT record with its current time and type
\* and its edit reason, and every auto-close OUT has an audit record.
C19_ChangesAudited ==
  op.pc # "edit_audit" =>
    \A i \in 1..Len(punches) :
      /\ punches[i].edited =>
           \E k \in 1..Len(audit) :
             /\ audit[k].action = "PUNCH_EDIT"
             /\ audit[k].resourceId = punches[i].id
             /\ audit[k].newState = [punchTime |-> punches[i].punchTime, punchType |-> punches[i].punchType]
             /\ audit[k].description = punches[i].editReason
      /\ i \in AutoClosed(punches) =>
           \E k \in 1..Len(audit) : audit[k].resourceId = punches[i].id

\* C20: an edit request without editReason is answered 400 at once and
\* changes nothing; the save of an edit stores edited = true and the
\* non-empty reason of the request.
C20_EditReasonStep ==
  /\ (op.pc = "idle" /\ op'.kind = "edit" /\ op'.reason = "") =>
       (op'.pc = "done" /\ op'.status = 400 /\ punches' = punches /\ audit' = audit)
  /\ (op.kind = "edit" /\ OpStep /\ punches' # punches) =>
       LET q == findById(punches', op.punchId)
       IN  /\ op.reason # ""
           /\ q.edited
           /\ q.editReason = op.reason
           /\ \A id \in Ids(punches) : id # op.punchId => findById(punches', id) = findById(punches, id)

C20_EditReason == [][C20_EditReasonStep]_vars

\* An edit without reason was refused with the log untouched, after an edit
\* with a reason had been stored
C20_Witness ==
  /\ op.pc = "done" /\ op.kind = "edit" /\ op.reason = "" /\ op.status = 400
  /\ \E i \in 1..Len(punches) : punches[i].edited /\ punches[i].editReason = "forgot to punch"

-----------------------------------------------------------------------------
(* POST /api/punch/manual: PunchService.createManualPunch, one action per    *)
(* await                                                                     *)

ManualTypes == {"", "IN", "OUT"}

FutureTimeError == "Cannot create punch for future time."

\* createManualPunch with the check of the punch time removed
isFuture_Never(punchTime, t) == FALSE

\* moment(punchTime).isAfter(moment())
isFuture(punchTime, t) == punchTime > t

\* const source = performedBy._id.toString() === userId.toString() ? 'Manual' : 'Admin'
manualSource(actor, userId) == IF actor = userId THEN "Manual" ELSE "Admin"

\* The document createManualPunch hands to PunchLog.create
manualPunch(userId, punchType, punchTime, source, id) ==
  [NoPunch EXCEPT !.id = id, !.userId = userId, !.punchType = punchType, !.punchTime = punchTime,
                  !.source = source, !.notes = [text |-> "", late |-> 0 - 1]]

\* router.post('/manual', protect, ...): the checks of the route, then the
\* synchronous head of createManualPunch
manualRequest(actor, userId, punchType, punchTime, reason) ==
  /\ op.pc = "idle"
  /\ Len(punches) < MaxPunches
  /\ Len(audit) < MaxAudit
  /\ LET o == [IdleOp EXCEPT !.kind = "manual", !.actor = actor, !.reason = reason,
                             !.editData = [punchTime |-> punchTime, punchType |-> punchType],
                             !.punch = manualPunch(userId, punchType, punchTime,
                                                   manualSource(actor, userId), 0)]
     IN  op' = IF userId # actor /\ Role(actor) # "Admin"
                 THEN OpFail(o, 403, "Not authorized to create punch for other users")
                 ELSE IF punchType = "" \/ punchTime = 0
                   THEN OpFail(o, 400, "Punch type and time are required")
                   ELSE IF isFuture(punchTime, now)
                     THEN OpFail(o, 500, FutureTimeError)
                     ELSE [o EXCEPT !.pc = "manual_create"]
  /\ UNCHANGED <<now, punches, req, wt, created, audit, job, view>>

\* const punch = await PunchLog.create({ userId, punchType, punchTime, source, notes })
manual_create ==
  /\ op.pc = "manual_create"
  /\ LET punch == [op.punch EXCEPT !.id = created + 1]
     IN  /\ punches' = Append(punches, punch)
         /\ created' = created + 1
         /\ op' = IF punch.source = "Admin"
                    THEN [op EXCEPT !.pc = "manual_audit", !.punch = punch, !.punchId = punch.id]
                    ELSE [OpOk([op EXCEPT !.punch = punch, !.punchId = punch.id]) EXCEPT !.status = 201]
  /\ UNCHANGED <<now, req, wt, audit, job, view>>

\* if (source === 'Admin') await AuditLog.log({ action: 'PUNCH_EDIT', ... })
manual_audit ==
  /\ op.pc = "manual_audit"
  /\ \E written \in BOOLEAN :
       IF written
         THEN /\ audit' = Append(audit, [action |-> "PUNCH_EDIT", performedBy |-> op.actor,
                                         targetUser |-> op.punch.userId, resourceId |-> op.punch.id,
                                         previousState |-> NoState,
                                         newState |-> [punchTime |-> op.punch.punchTime,
                                                       punchType |-> op.punch.punchType],
                                         description |-> IF op.reason # "" THEN op.reason
                                                         ELSE "Manual punch created by admin"])
              /\ op' = [OpOk(op) EXCEPT !.status = 201]
         ELSE /\ op' = OpFail(op, 500, "AuditLog write failed")
              /\ UNCHANGED audit
  /\ UNCHANGED <<now, punches, req, wt, created, job, view>>

NextManual ==
  \/ \E actor \in Actors, userId \in Users, punchType \in ManualTypes, punchTime \in Instants,
        reason \in Reasons : manualRequest(actor, userId, punchType, punchTime, reason)
  \/ manual_create
  \/ manual_audit
  \/ opDone
  \/ Tick

SpecManual == Init /\ [][NextManual]_vars

\* C21: a createManualPunch call whose punchTime is later than the current
\* instant fails with 'Cannot create punch for future time.', and neither
\* that step nor any step while the failure is pending adds a punch or an
\* audit record.
C21_FutureStep ==
  /\ (/\ op.pc = "idle"
      /\ op'.kind = "manual"
      /\ op'.status \notin {400, 403}
      /\ op'.editData.punchTime > now)
       => /\ op'.pc = "done"
          /\ op'.outcome = "error"
          /\ op'.error = FutureTimeError
  /\ (op'.kind = "manual" /\ op'.error = FutureTimeError)
       => punches' = punches /\ audit' = audit /\ created' = created

C21_FutureRejected == [][C21_FutureStep]_vars

\* A manual punch for a future instant has been refused, punches already stored
C21_Witness ==
  /\ op.kind = "manual"
  /\ op.pc = "done"
  /\ op.error = FutureTimeError
  /\ op.editData.punchTime > now
  /\ Len(punches) > 0

-----------------------------------------------------------------------------
(* POST /api/punch, the requests of one user agent handled one at a time     *)

PostReqs == {"r1"}

\* What a client sends: the tests send a punchType; source is optional
Bodies == [punchType : {"IN", "OUT", "INVALID"}, source : {"", "NFC", "Web"}]

\* body('source').optional().isIn(['NFC', 'Manual', 'Admin']); nothing else of
\* the body is validated but nfcUID
punchValidation(body) == body.source \in {"", "NFC", "Manual", "Admin"}

\* router.post('/', protect, punchValidation, ...): const { source = 'Manual',
\* nfcUID, notes } = req.body; PunchService.createPunch(req.user, {...}) up to
\* its new Date()
postPunch(r, u, body) ==
  /\ req[r].pc = "idle"
  /\ req' = [req EXCEPT ![r] =
               IF ~punchValidation(body)
                 THEN [IdleReq EXCEPT !.pc = "done", !.user = u, !.body = body,
                                      !.outcome = "BadRequest", !.error = "Invalid source"]
                 ELSE [IdleReq EXCEPT !.pc = "isDoublePunch", !.user = u, !.body = body,
                                      !.source = IF body.source = "" THEN "Manual" ELSE body.source,
                                      !.punchTime = now]]
  /\ UNCHANGED <<now, punches, wt, created, audit, job, op, view>>

NextPost ==
  \/ \E r \in PostReqs, u \in Users, body \in Bodies : postPunch(r, u, body)
  \/ \E r \in PostReqs : createPunch_isDoublePunch(r)
  \/ \E r \in PostReqs : createPunch_getNextPunchType(r)
  \/ \E r \in PostReqs : createPunch_validatePunchSequence(r)
  \/ \E r \in PostReqs : createPunch_findLastIn(r)
  \/ \E r \in PostReqs : createPunch_sendWeekendPunchWarning(r)
  \/ \E r \in PostReqs : createPunch_nfc(r)
  \/ \E r \in PostReqs : createPunch_create(r)
  \/ \E r \in PostReqs : respond(r)
  \/ Tick

SpecPost == Init /\ [][NextPost]_vars

\* C22: a request to POST /api/punch whose body carries a punchType other
\* than IN or OUT ends as a bad request (400), so it never ends with a punch
\* created.
C22_InvalidTypeRejected ==
  \A r \in PostReqs :
    (req[r].pc = "done" /\ req[r].body # NoBody /\ req[r].body.punchType \notin {"IN", "OUT"})
      => req[r].outcome = "BadRequest"

\* The punches of user u in the order they were created
CreatedBy(u) == SelectSeq(punches, LAMBDA p : p.userId = u)

-----------------------------------------------------------------------------
(* TimeEngine.calculatePredictedExitTime and formatMinutes, on the punch     *)
(* lists of the worked-time harness and on durations in milliseconds         *)

\* getDailyWorkTarget: the seeded profiles' 480 and 540 minutes
DailyTargets == {480, 540}

NoExit == [isNull |-> TRUE, time |-> 0, remainingMinutes |-> 0]

\* The index of [...punches].reverse().find(p => p.punchType === 'IN'), 0 if none
lastInIndex(ps) ==
  IF \E i \in 1..Len(ps) : ps[i].punchType = "IN"
    THEN CHOOSE i \in 1..Len(ps) :
           ps[i].punchType = "IN" /\ \A j \in (i + 1)..Len(ps) : ps[j].punchType # "IN"
    ELSE 0

\* calculatePredictedExitTime without the hasOutAfterIn check
calculatePredictedExitTime_NoOutCheck(ps, dailyTargetMinutes, t) ==
  IF lastInIndex(ps) = 0
    THEN NoExit
    ELSE LET lastInPunch == ps[lastInIndex(ps)]
             workedBefore == calculateWorkedTime(
                               SelectSeq(ps, LAMBDA p : p.punchTime < lastInPunch.punchTime), FALSE, t)
             remaining == dailyTargetMinutes * MsPerMinute - workedBefore
         IN  [isNull |-> FALSE, time |-> lastInPunch.punchTime + remaining, remainingMinutes |-> remaining]

\* TimeEngine.calculatePredictedExitTime(punches, dailyTargetMinutes, timezone)
\* called at instant t; remainingMinutes is counted in milliseconds
calculatePredictedExitTime(ps, dailyTargetMinutes, t) ==
  IF lastInIndex(ps) = 0
    THEN NoExit
    ELSE LET lastInPunch == ps[lastInIndex(ps)]
             hasOutAfterIn == \E i \in 1..Len(ps) :
                                ps[i].punchType = "OUT" /\ ps[i].punchTime > lastInPunch.punchTime
             punchesBeforeLastIn == SelectSeq(ps, LAMBDA p : p.punchTime < lastInPunch.punchTime)
             workedBefore == calculateWorkedTime(punchesBeforeLastIn, FALSE, t)
             remainingMinutes == dailyTargetMinutes * MsPerMinute - workedBefore
         IN  IF hasOutAfterIn
               THEN NoExit
               ELSE [isNull |-> FALSE, time |-> lastInPunch.punchTime + remainingMinutes,
                     remainingMinutes |-> remainingMinutes]

\* Math.round of a non-negative quotient a / b
RoundDiv(a, b) == (2 * a + b) \div (2 * b)

\* formatMinutes printing the hours even when there are none
formatMinutes_HoursAlways(ms) ==
  ToString(ms \div MsPerHour) \o "h " \o ToString(RoundDiv(ms % MsPerHour, MsPerMinute)) \o "m"

\* TimeEngine.formatMinutes(minutes), the minutes given in milliseconds:
\* hours = Math.floor(minutes / 60), mins = Math.round(minutes % 60)
formatMinutes(ms) ==
  LET hours == ms \div MsPerHour
      mins == RoundDiv(ms % MsPerHour, MsPerMinute)
  IN  IF hours = 0
        THEN ToString(mins) \o "m"
        ELSE ToString(hours) \o "h " \o ToString(mins) \o "m"

\* Durations handed to formatMinutes: whole minutes and fractions of a minute
FormatInputs ==
  { 0, 20 * MsPerSecond, 45 * MsPerMinute, 59 * MsPerMinute + 20 * MsPerSecond,
    59 * MsPerMinute + 40 * MsPerSecond, 60 * MsPerMinute,
    90 * MsPerMinute, 90 * MsPerMinute + 10 * MsPerSecond, 480 * MsPerMinute, 540 * MsPerMinute }

\* calculatePredictedExitTime(todayPunches, dailyTarget, timezone) at instant t
wtPredict(dailyTargetMinutes, t) ==
  /\ wt.pc = "build"
  /\ wt' = [wt EXCEPT !.pc = "predicted", !.at = t, !.includeOpenPunch = FALSE,
                      !.result = [target |-> dailyTargetMinutes,
                                  exit |-> calculatePredictedExitTime(wt.punches, dailyTargetMinutes, t)]]
  /\ UNCHANGED <<now, punches, req, created, audit, job, op, view>>

\* formatMinutes(minutes)
wtFormat(ms) ==
  /\ wt.pc = "build"
  /\ wt' = [wt EXCEPT !.pc = "formatted", !.at = ms, !.result = formatMinutes(ms)]
  /\ UNCHANGED <<now, punches, req, created, audit, job, op, view>>

NextCalc ==
  \/ \E type \in {"IN", "OUT"}, t \in WtPunchTimes : wtAppend(type, t)
  \/ \E dailyTargetMinutes \in DailyTargets, t \in WtNows : wtPredict(dailyTargetMinutes, t)
  \/ \E ms \in FormatInputs : wtFormat(ms)

SpecCalc == Init /\ [][NextCalc]_vars

\* The punches of a list with a punchTime earlier than t
Earlier(ps, t) == SelectSeq(ps, LAMBDA p : p.punchTime < t)

\* The last IN of a list, by position
LastIns(ps) == {i \in 1..Len(ps) : ps[i].punchType = "IN" /\ \A j \in (i + 1)..Len(ps) : ps[j].punchType = "OUT"}

\* C24: calculatePredictedExitTime returns null when the list has no IN or an
\* OUT has a punchTime later than the last IN's; otherwise it returns the last
\* IN's time plus the target less the time worked in the punches before that
\* IN, counted by calculateWorkedTime without an open session.
C24_PredictedExit ==
  wt.pc = "predicted" =>
    LET ps == wt.punches
        exit == wt.result.exit
    IN  IF LastIns(ps) = {}
          THEN exit.isNull
          ELSE \A i \in LastIns(ps) :
                 IF \E j \in 1..Len(ps) : ps[j].punchType = "OUT" /\ ps[j].punchTime > ps[i].punchTime
                   THEN exit.isNull
                   ELSE /\ ~exit.isNull
                        /\ exit.time = ps[i].punchTime + wt.result.target * MsPerMinute
                                         - calculateWorkedTime(Earlier(ps, ps[i].punchTime), FALSE, wt.at)

\* A prediction after a closed morning session, and a null after the last OUT
C24_Witness ==
  /\ wt.pc = "predicted"
  /\ Len(wt.punches) = 3
  /\ wt.punches[1].punchType = "IN" /\ wt.punches[2].punchType = "OUT" /\ wt.punches[3].punchType = "IN"
  /\ wt.punches[1].punchTime < wt.punches[2].punchTime
  /\ wt.punches[2].punchTime < wt.punches[3].punchTime
  /\ ~wt.result.exit.isNull
  /\ wt.result.exit.remainingMinutes < wt.result.target * MsPerMinute

\* C25: formatMinutes renders '{h}h {m}m' from 60 minutes on and '{m}m' below,
\* h the whole hours and m the rounded minutes left: 90 gives '1h 30m', 45
\* gives '45m' and 480 gives '8h 0m'.
C25_FormatMinutes ==
  wt.pc = "formatted" =>
    /\ wt.at >= 60 * MsPerMinute
         => wt.result = ToString(wt.at \div MsPerHour) \o "h "
                          \o ToString(RoundDiv(wt.at - (wt.at \div MsPerHour) * MsPerHour, MsPerMinute)) \o "m"
    /\ wt.at < 60 * MsPerMinute => wt.result = ToString(RoundDiv(wt.at, MsPerMinute)) \o "m"
    /\ wt.at = 90 * MsPerMinute => wt.result = "1h 30m"
    /\ wt.at = 45 * MsPerMinute => wt.result = "45m"
    /\ wt.at = 480 * MsPerMinute => wt.result = "8h 0m"

\* 45 minutes have been rendered
C25_Witness == wt.pc = "formatted" /\ wt.at = 45 * MsPerMinute /\ wt.result = "45m"

-----------------------------------------------------------------------------
(* GET /api/dashboard and /api/dashboard/weekly: TimeEngine.getDashboardData *)
(* and getWeeklySummary, one action per await, reading the log that one      *)
(* createPunch slot writes                                                   *)

\* The instants of the clock, and Sat 09:00 IST, which is Saturday in UTC too
DashInstants == Instants \cup { At(2, 3, 30, 0, 0) }

WeekOffsets == {0, 1}

\* Time passes, as in Tick, up to the Saturday morning
TickDash ==
  /\ \A r \in Reqs : req[r].pc \in {"idle", "done"}
  /\ view.pc \in {"idle", "done"}
  /\ \E t \in DashInstants : t > now /\ now' = t
  /\ UNCHANGED <<punches, req, wt, created, audit, job, op, view>>

\* static async getDashboardData(user)
getDashboardData(u) ==
  /\ view.pc = "idle"
  /\ view' = [IdleView EXCEPT !.pc = "dash_getTodayPunches", !.kind = "dashboard", !.user = u]
  /\ UNCHANGED <<now, punches, req, wt, created, audit, job, op>>

\* const todayPunches = await this.getTodayPunches(user._id, timezone)
dash_getTodayPunches ==
  /\ view.pc = "dash_getTodayPunches"
  /\ \E ps \in SortedByTime(getTodayPunches(punches, view.user, getTimezone(view.user), now)) :
       view' = [view EXCEPT !.pc = "dash_getLastPunch", !.todayPunches = ps]
  /\ UNCHANGED <<now, punches, req, wt, created, audit, job, op>>

\* alerts.isWeekend: !config.defaults.workingDays.includes(currentTime.format('dddd'))
isWeekend(u, t) == DayName(t, getTimezone(u)) \notin DefaultWorkingDays

\* The snapshot getDashboardData returns once getLastPunch has answered
snapshot(v, lastPunch, t) ==
  LET todayPunches == v.todayPunches
      hasOpenPunch == Len(todayPunches) > 0 /\ todayPunches[Len(todayPunches)].punchType = "IN"
  IN  [v EXCEPT !.pc = "done", !.at = t, !.lastPunch = lastPunch,
                !.status = IF lastPunch.punchType = "IN" THEN "WORKING" ELSE "NOT_WORKING",
                !.nextPunchType = IF lastPunch.punchType = "IN" THEN "OUT" ELSE "IN",
                !.hasOpenPunch = hasOpenPunch,
                !.hasOddPunchCount = Len(todayPunches) > 0 /\ Len(todayPunches) % 2 # 0,
                !.sessionCount = (Len(todayPunches) \div 2) + (IF hasOpenPunch THEN 1 ELSE 0),
                !.isWeekend = isWeekend(v.user, t)]

\* const lastPunch = await this.getLastPunch(user._id), and the rest of the function
dash_getLastPunch ==
  /\ view.pc = "dash_getLastPunch"
  /\ \E lastPunch \in getLastPunch(punches, view.user) : view' = snapshot(view, lastPunch, now)
  /\ UNCHANGED <<now, punches, req, wt, created, audit, job, op>>

\* The weekday of instant t in timezone tz, 0 for Sunday
Weekday(t, tz) == ((LocalMs(t, tz) \div MsPerDay) + 4) % 7

\* moment().tz(timezone).subtract(weekOffset, 'weeks').startOf('week'), as an instant
weekStart(t, tz, weekOffset) == startOfDay(t, tz) - (Weekday(t, tz) + 7 * weekOffset) * MsPerDay

\* day.isSame(moment(), 'day') answering yes for every day
isToday_Always(dayStart, t) == TRUE

\* day.isSame(moment(), 'day'), day given by the instant its local day starts
isToday(dayStart, t) == dayStart <= t /\ t <= dayStart + MsPerDay - 1

\* Math.round(workedMinutes * 100) / 100, in hundredths of a minute
roundedMinutes(ms) == RoundDiv(ms, 600)

\* One entry of dailyData: the day i days after weekStart
dailyEntry(u, ps, start, i, t) ==
  LET dayStart == start + i * MsPerDay
      dayEnd == dayStart + MsPerDay - 1
      dayPunches == SelectSeq(ps, LAMBDA p : p.punchTime >= dayStart /\ p.punchTime <= dayEnd)
      workedMinutes == calculateWorkedTime(dayPunches, isToday(dayStart, t), t)
  IN  [dayStart |-> dayStart, dayName |-> WeekdayNames[i + 1],
       isWorkingDay |-> WeekdayNames[i + 1] \in Profile(u).workingDays,
       workedMinutes |-> roundedMinutes(workedMinutes), punchCount |-> Len(dayPunches)]

\* static async getWeeklySummary(user, weekOffset = 0)
getWeeklySummary(u, weekOffset) ==
  /\ view.pc = "idle"
  /\ view' = [IdleView EXCEPT !.pc = "weekly_getPunchesInRange", !.kind = "weekly", !.user = u,
                              !.at = weekOffset]
  /\ UNCHANGED <<now, punches, req, wt, created, audit, job, op>>

\* const punches = await this.getPunchesInRange(...), and the loop over the 7 days
weekly_getPunchesInRange ==
  /\ view.pc = "weekly_getPunchesInRange"
  /\ LET u == view.user
         start == weekStart(now, getTimezone(u), view.at)
     IN  \E ps \in SortedByTime(PunchesInRange(punches, u, start, start + 7 * MsPerDay - 1)) :
           view' = [view EXCEPT !.pc = "done", !.at = now, !.todayPunches = ps,
                                !.days = [i \in 1..7 |-> dailyEntry(u, ps, start, i - 1, now)]]
  /\ UNCHANGED <<now, punches, req, wt, created, audit, job, op>>

\* The response is sent and the read slot is free
viewDone ==
  /\ view.pc = "done"
  /\ view' = IdleView
  /\ UNCHANGED <<now, punches, req, wt, created, audit, job, op>>

NextDash ==
  \/ \E r \in PostReqs, u \in Users : \E options \in Submissions(u) : createPunch(r, u, options)
  \/ \E r \in PostReqs : createPunch_isDoublePunch(r)
  \/ \E r \in PostReqs : createPunch_getNextPunchType(r)
  \/ \E r \in PostReqs : createPunch_validatePunchSequence(r)
  \/ \E r \in PostReqs : createPunch_findLastIn(r)
  \/ \E r \in PostReqs : createPunch_sendWeekendPunchWarning(r)
  \/ \E r \in PostReqs : createPunch_nfc(r)
  \/ \E r \in PostReqs : createPunch_create(r)
  \/ \E r \in PostReqs : respond(r)
  \/ TickDash
  \/ \E u \in Users : getDashboardData(u)
  \/ dash_getTodayPunches
  \/ dash_getLastPunch
  \/ \E u \in Users, weekOffset \in WeekOffsets : getWeeklySummary(u, weekOffset)
  \/ weekly_getPunchesInRange
  \/ viewDone

SpecDash == Init /\ [][NextDash]_vars

\* C26: in a dashboard snapshot the status is WORKING exactly when the last of
\* today's punches is IN, nextPunchType is the opposite of that punch's type
\* (IN when today has no punch), and so the status is WORKING exactly when
\* alerts.hasOpenPunch is set.
C26_StatusFromToday ==
  (view.kind = "dashboard" /\ view.pc = "done") =>
    LET today == view.todayPunches
        lastIsIn == Len(today) > 0 /\ today[Len(today)].punchType = "IN"
    IN  /\ (view.status = "WORKING") <=> lastIsIn
        /\ view.nextPunchType = IF Len(today) = 0 THEN "IN" ELSE Opposite(today[Len(today)].punchType)
        /\ (view.status = "WORKING") <=> view.hasOpenPunch

\* C27: the snapshot's non-working-day flag is set exactly when the weekday
\* of the current instant in the user's timezone is not one of the user's
\* configured workingDays.
C27_NonWorkingDayFlag ==
  (view.kind = "dashboard" /\ view.pc = "done") =>
    (view.isWeekend <=> DayName(view.at, getTimezone(view.user)) \notin Profile(view.user).workingDays)

\* The punches a weekly summary read that fall on the local day starting at dayStart
ReadOn(dayStart) ==
  SelectSeq(view.todayPunches, LAMBDA p : p.punchTime >= dayStart /\ p.punchTime < dayStart + MsPerDay)

\* The open session of a list: the time from its last punch, an IN, to t
OpenSince(ps, t) ==
  IF Len(ps) > 0 /\ ps[Len(ps)].punchType = "IN" THEN t - ps[Len(ps)].punchTime ELSE 0

\* C28: in a weekly summary every day other than the current local day counts
\* its closed sessions only, an unmatched IN adding nothing, and the current
\* local day adds the time of its open session.
C28_OpenSessionToday ==
  (view.kind = "weekly" /\ view.pc = "done") =>
    \A i \in 1..7 :
      LET day == view.days[i]
          ps == ReadOn(day.dayStart)
          current == LocalDay(view.at, getTimezone(view.user)) = LocalDay(day.dayStart, getTimezone(view.user))
      IN  day.workedMinutes =
            roundedMinutes(ClosedSessions(ps)
                           + IF current /\ OpenSince(ps, view.at) <= MaxOpenPunchMinutes * MsPerMinute
                               THEN OpenSince(ps, view.at)
                               ELSE IF current THEN OpenPunchEstimateMinutes * MsPerMinute ELSE 0)

\* A summary of this week read on Saturday with Friday's IN unmatched, and one
\* read on Friday with the day's IN open
C28_Witness ==
  /\ view.kind = "weekly"
  /\ view.pc = "done"
  /\ \E i \in 1..7 :
       LET ps == ReadOn(view.days[i].dayStart)
       IN  /\ Len(ps) > 0
           /\ ps[Len(ps)].punchType = "IN"
           /\ view.at >= view.days[i].dayStart + MsPerDay
           /\ view.days[i].workedMinutes = 0

-----------------------------------------------------------------------------
(* The orphan scan of cleanupOrphanedPunches on one user's punches, hourly   *)
(* from Fri 08:00 UTC in the order the sorted query returns them             *)

MaxScan == 5

\* The next punch of the user's list
scanAppend(type) ==
  /\ wt.pc = "build"
  /\ Len(wt.punches) < MaxScan
  /\ wt' = [wt EXCEPT !.punches = Append(@, [id |-> Len(wt.punches) + 1, userId |-> "u1",
                                              punchType |-> type,
                                              punchTime |-> At(1, 8 + Len(wt.punches), 0, 0, 0)])]
  /\ UNCHANGED <<now, punches, req, created, audit, job, op, view>>

\* let expectedNext = 'IN'; for (const punch of punches) { ... }
scanOrphans ==
  /\ wt.pc = "build"
  /\ wt' = [wt EXCEPT !.pc = "scanned", !.result = OrphanScan(wt.punches, 1, "IN")]
  /\ UNCHANGED <<now, punches, req, created, audit, job, op, view>>

NextScan ==
  \/ \E type \in {"IN", "OUT"} : scanAppend(type)
  \/ scanOrphans

SpecScan == Init /\ [][NextScan]_vars

\* The type the scan expects of punch i: IN first, then the opposite of the
\* punch before it
ExpectedAt(ps, i) == IF i = 1 THEN "IN" ELSE Opposite(ps[i - 1].punchType)

Types(ps) == [i \in 1..Len(ps) |-> ps[i].punchType]

\* C29: the orphan scan flags exactly the punches whose type differs from the
\* expected one, which starts as IN and after each punch is the opposite of
\* that punch's actual type; of IN, IN, OUT, IN, OUT it flags only the second
\* IN.
C29_OrphanScan ==
  wt.pc = "scanned" =>
    LET ps == wt.punches
        flagged == {wt.result[k].punchId : k \in 1..Len(wt.result)}
    IN  /\ flagged = {ps[i].id : i \in {j \in 1..Len(ps) : ps[j].punchType # ExpectedAt(ps, j)}}
        /\ Len(wt.result) = Cardinality(flagged)
        /\ \A k \in 1..Len(wt.result) :
             wt.result[k].reason = OrphanReason(ExpectedAt(ps, wt.result[k].punchId),
                                                ps[wt.result[k].punchId].punchType)
        /\ Types(ps) = <<"IN", "IN", "OUT", "IN", "OUT">> => flagged = {2}

\* IN, IN, OUT, IN, OUT has been scanned
C29_Witness ==
  /\ wt.pc = "scanned"
  /\ Types(wt.punches) = <<"IN", "IN", "OUT", "IN", "OUT">>
  /\ Len(wt.result) = 1

-----------------------------------------------------------------------------
(* cleanupOrphanedPunches run from the admin route on a log that users fill  *)
(* with manual punches for themselves                                        *)

NextOrphans ==
  \/ \E u \in Users, punchType \in {"IN", "OUT"}, punchTime \in Instants :
       manualRequest(u, u, punchType, punchTime, "")
  \/ manual_create
  \/ opDone
  \/ Tick
  \/ \E dryRun \in BOOLEAN : cleanupOrphanedPunches(dryRun)
  \/ cleanup_find
  \/ cleanup_mark
  \/ jobDone

SpecOrphans == Init /\ [][NextOrphans]_vars

\* The orphans a run over the log would report for user u, one set for each
\* order in which the sorted query can return punches of equal punchTime
Reruns(u) ==
  LET found == PunchesSinceDays(punches, u, CleanupWindowDays, now, getTimezone(u))
  IN  {Elems(OrphanScan(ps, 1, "IN")) : ps \in SortedByTime(found)}

\* A dry run has returned and the log is the one it started from
DryRunReturned ==
  /\ job.kind = "cleanup"
  /\ job.dryRun
  /\ job.pc = "done"
  /\ job.outcome = "success"
  /\ created = job.startedAt

\* C30: no step of a dry run of cleanupOrphanedPunches changes a punch, and
\* when a dry run has returned, any further run over the unchanged log flags
\* the same punches for the same reasons.
C30_DryRunStep ==
  /\ (job.kind = "cleanup" /\ job.dryRun /\ JobStep) => punches' = punches
  /\ DryRunReturned' =>
       \A u \in Users :
         Reruns(u)' = {{o \in Elems(job'.orphanedPunches) : o.userId = u}}

C30_DryRunRepeatable == [][C30_DryRunStep]_vars

-----------------------------------------------------------------------------
(* Further claims about the scheduler jobs *)

\* The notes a punch may carry once annotation text has been added to what it had
Annotated(old, annotation) ==
  IF old = ""
    THEN {annotation}
    ELSE {old \o sep \o annotation : sep \in {"", " ", " | ", "; "}}
           \cup {annotation \o sep \o old : sep \in {"", " ", " | ", "; "}}

\* C31: a run of the orphan cleanup that is not a dry run deletes no punch
\* and changes no punch's user, type, time or source; a punch it does not
\* flag is left as it was, and a punch it flags keeps the notes it had, the
\* annotation being added to them.
C31_AnnotateStep ==
  (job.kind = "cleanup" /\ ~job.dryRun /\ JobStep) =>
    /\ Len(punches') = Len(punches)
    /\ \A i \in 1..Len(punches) :
         LET old == punches[i]
             new == punches'[i]
             flagged == {o \in Elems(job.orphanedPunches) : o.punchId = old.id}
         IN  /\ [new EXCEPT !.notes = old.notes] = old
             /\ flagged = {} => new = old
             /\ new # old =>
                  /\ new.notes.late = old.notes.late
                  /\ \E o \in flagged : new.notes.text \in Annotated(old.notes.text, OrphanNote(o))

C31_AnnotateOnly == [][C31_AnnotateStep]_vars

\* Time passes, as in Tick, through the instants of the clock and Fri 11:28
\* UTC: 7 h 58 min after 03:30 UTC
TickReminders ==
  /\ \A r \in Reqs : req[r].pc \in {"idle", "done"}
  /\ job.pc \in {"idle", "done"}
  /\ \E t \in Instants \cup { At(1, 11, 28, 0, 0) } : t > now /\ now' = t
  /\ UNCHANGED <<punches, req, wt, created, audit, job, op, view>>

NextReminders ==
  \/ \E r \in JobReqs, u \in Users : \E options \in Submissions(u) : createPunch(r, u, options)
  \/ \E r \in JobReqs : createPunch_isDoublePunch(r)
  \/ \E r \in JobReqs : createPunch_getNextPunchType(r)
  \/ \E r \in JobReqs : createPunch_validatePunchSequence(r)
  \/ \E r \in JobReqs : createPunch_findLastIn(r)
  \/ \E r \in JobReqs : createPunch_sendWeekendPunchWarning(r)
  \/ \E r \in JobReqs : createPunch_nfc(r)
  \/ \E r \in JobReqs : createPunch_create(r)
  \/ \E r \in JobReqs : respond(r)
  \/ TickReminders
  \/ sendPunchOutReminders
  \/ reminders_find
  \/ reminders_send
  \/ jobDone

SpecReminders == Init /\ [][NextReminders]_vars

\* The users the reminder job goes on to mail once it has read every user's punches
Reminded(j) ==
  IF j.pc = "reminders_send" THEN Elems(j.queue) ELSE {}

\* C32: when sendPunchOutReminders has read the users' punches, it sends a
\* reminder to exactly the users whose last punch today it found to be an IN
\* at least 8 hours old; an open IN less than 8 hours old gets none.
C32_ReminderStep ==
  (job.kind = "reminders" /\ job.pc = "reminders_find" /\ job'.pc # "reminders_find") =>
    Reminded(job') = {x.user : x \in {y \in Elems(job'.notifications) :
                                        now - y.inPunchTime >= ReminderAfterHours * MsPerHour}}

C32_ReminderAfterEightHours == [][C32_ReminderStep]_vars

-----------------------------------------------------------------------------
(* PunchValidator.detectPunchIssues on the list its query returns: today's   *)
(* punches in ascending punchTime                                            *)

ShortSessionMinutes == 30
LongOpenPunchHours == 12

\* The loop for (let i = 0; i < todayPunches.length - 1; i += 2) from index i
\* (0-based) on: the SHORT_SESSION issues, each with the positions of its pair
RECURSIVE ShortSessions(_, _)
ShortSessions(ps, i) ==
  IF i >= Len(ps) - 1
    THEN <<>>
    ELSE (IF ps[i + 1].punchType = "IN" /\ ps[i + 2].punchType = "OUT"
               /\ momentDiff(ps[i + 2].punchTime, ps[i + 1].punchTime, MsPerMinute) < ShortSessionMinutes
            THEN <<[type |-> "SHORT_SESSION", from |-> i + 1, to |-> i + 2,
                    duration |-> momentDiff(ps[i + 2].punchTime, ps[i + 1].punchTime, MsPerMinute)]>>
            ELSE <<>>)
         \o ShortSessions(ps, i + 2)

\* PunchValidator.detectPunchIssues(userId, timezone) at instant t, given todayPunches
detectPunchIssues(ps, t) ==
  (IF Len(ps) > 0 /\ Len(ps) % 2 # 0 THEN <<[type |-> "ODD_PUNCH_COUNT"]>> ELSE <<>>)
  \o (IF Len(ps) > 0 /\ ps[Len(ps)].punchType = "IN"
           /\ t - ps[Len(ps)].punchTime > LongOpenPunchHours * MsPerHour
        THEN <<[type |-> "LONG_OPEN_PUNCH"]>>
        ELSE <<>>)
  \o ShortSessions(ps, 0)
  \o (IF Len(ps) \div 2 > 3 THEN <<[type |-> "MULTIPLE_SESSIONS"]>> ELSE <<>>)

\* const issues = await PunchValidator.detectPunchIssues(...)
wtDetect(t) ==
  /\ wt.pc = "build"
  /\ wt' = [wt EXCEPT !.pc = "detected", !.at = t, !.result = detectPunchIssues(wt.punches, t)]
  /\ UNCHANGED <<now, punches, req, created, audit, job, op, view>>

NextIssues ==
  \* punchTimes: Fri 09:00 UTC, and 10, 29 min 59.999 s, 30 and 45 minutes later
  \/ \E type \in {"IN", "OUT"},
        t \in { At(1, 9, 0, 0, 0), At(1, 9, 10, 0, 0), At(1, 9, 29, 59, 999),
                At(1, 9, 30, 0, 0), At(1, 9, 45, 0, 0) } : wtAppend(type, t)
  \/ \E t \in WtNows : wtDetect(t)

SpecIssues == Init /\ [][NextIssues]_vars

\* C33: detectPunchIssues reports SHORT_SESSION for every IN immediately
\* followed by an OUT less than 30 minutes later in today's time-ordered
\* punches, and for no other pair.
C33_ShortSessions ==
  wt.pc = "detected" =>
    LET ps == wt.punches
        reported == {<<x.from, x.to>> : x \in {y \in Elems(wt.result) : y.type = "SHORT_SESSION"}}
    IN  reported = {<<i, i + 1>> : i \in {j \in 1..(Len(ps) - 1) :
                                            /\ ps[j].punchType = "IN"
                                            /\ ps[j + 1].punchType = "OUT"
                                            /\ ps[j + 1].punchTime - ps[j].punchTime
                                                 < ShortSessionMinutes * MsPerMinute}}

-----------------------------------------------------------------------------
(* Day bounds and today's worked time for a profile timezone that            *)
(* profileUpdateValidation accepted: any string                              *)

\* Values of user.profile.timezone: two zones moment-timezone has data for,
\* and a name it has none for
ProfileZones == {"Asia/Kolkata", "UTC", "Mars/Phobos"}

\* getTodayPunches and calculateWorkedTime(todayPunches, true) for a user in
\* zone tz at instant t.  moment().tz(name) with a name it has no data for
\* logs an error and returns the moment unchanged, in the server's zone (UTC)
todayWorked(ps, tz, t) ==
  LET bounds == getDayBoundsUTC(tz, t)
      todayPunches == SelectSeq(ps, LAMBDA p : p.punchTime >= bounds.start /\ p.punchTime <= bounds.end)
  IN  [outcome |-> "ok", error |-> "", timezone |-> tz, start |-> bounds.start, end |-> bounds.end,
       totalWorkedMinutes |-> calculateWorkedTime(todayPunches, TRUE, t)]

\* const todayPunches = await this.getTodayPunches(user._id, timezone);
\* const totalWorkedMinutes = this.calculateWorkedTime(todayPunches, true)
wtToday(tz, t) ==
  /\ wt.pc = "build"
  /\ wt' = [wt EXCEPT !.pc = "today", !.at = t, !.includeOpenPunch = TRUE,
                      !.result = todayWorked(wt.punches, tz, t)]
  /\ UNCHANGED <<now, punches, req, created, audit, job, op, view>>

NextZones ==
  \/ \E type \in {"IN", "OUT"}, t \in WtPunchTimes : wtAppend(type, t)
  \/ \E tz \in ProfileZones, t \in WtNows : wtToday(tz, t)

SpecZones == Init /\ [][NextZones]_vars

\* C34: with a timezone identifier that is not a known zone the computation
\* of the day bounds fails with a ConfigurationError, and no bounds or
\* worked-time figure come out of it.
C34_InvalidZoneFails ==
  (wt.pc = "today" /\ wt.result.timezone \notin {"Asia/Kolkata", "UTC"}) =>
    /\ wt.result.outcome = "error"
    /\ wt.result.error = "ConfigurationError"

-----------------------------------------------------------------------------
(* Further claims about createPunch *)

\* The local time of day of instant t in zone tz, in milliseconds
TimeOfDay(t, tz) == LocalMs(t, tz) % MsPerDay

HoursMinutes(hm) == hm[1] * MsPerHour + hm[2] * MsPerMinute

\* C35: the business-hours check of a punch warns exactly when the punch's
\* local time of day is outside [start, end): a punch at the start time is
\* not warned and one at the end time is.
C35_BusinessHours ==
  \A r \in PostReqs :
    req[r].validation # NoValidation =>
      LET tod == TimeOfDay(req[r].punchTime, getTimezone(req[r].user))
          inside == /\ HoursMinutes(DefaultBusinessHours.start) <= tod
                    /\ tod < HoursMinutes(DefaultBusinessHours.end)
      IN  req[r].validation.validations.businessHours <=> inside

\* C36: a submission made more than 60 seconds after the user's last punch,
\* or by a user with no punch, is not refused by the double-punch check or
\* the sequence validation, whatever day it is made on.
C36_NeverStuck ==
  \A r \in PostReqs :
    (/\ req[r].pc = "done"
     /\ req[r].outcome # "BadRequest"
     /\ req[r].diffMs = 0 - 1 \/ req[r].diffMs > DoublePunchWindowSeconds * MsPerSecond)
      => req[r].outcome \in {"Created", "NfcError"}

-----------------------------------------------------------------------------
(* Further claims about auto-close, stored punch times and the calculations *)

\* C37: the OUT that auto-close writes for a user is not earlier than the
\* open IN it closes, so that the user's last punch of the day in time order
\* is then an OUT.
C37_AutoCloseStep ==
  (job.kind = "autoClose" /\ JobStep /\ Len(punches') > Len(punches)) =>
    LET out == punches'[Len(punches')]
    IN  /\ out.punchType = "OUT"
        /\ out.punchTime >= job.lastSeen.punchTime
        /\ \A p \in Latest(getTodayPunches(punches', out.userId, getTimezone(out.userId), now)) :
             p.punchType = "OUT"

C37_AutoCloseNotBeforeIn == [][C37_AutoCloseStep]_vars

\* C38: no punch in the log has a punchTime later than the current instant,
\* so none was stored with a punchTime later than the instant of its write.
C38_NoFuturePunch == \A i \in 1..Len(punches) : punches[i].punchTime <= now

\* C39: for a list that ends in an open IN, the worked time counted with the
\* open session at an instant is not more than the worked time counted at any
\* later instant.
C39_WorkedNeverDecreases ==
  (/\ wt.pc = "evaluated"
   /\ wt.includeOpenPunch
   /\ Len(wt.punches) > 0
   /\ wt.punches[Len(wt.punches)].punchType = "IN"
   /\ wt.punches[Len(wt.punches)].punchTime <= wt.at)
    => \A t \in WtNows : t >= wt.at => calculateWorkedTime(wt.punches, TRUE, t) >= wt.result

\* C40: for a duration of whole and fractional minutes, formatMinutes prints
\* hours h and minutes m with m in 0..59 and h * 60 + m the duration rounded
\* to the nearest minute.
C40_MinutesBelowSixty ==
  wt.pc = "formatted" =>
    LET rounded == RoundDiv(wt.at, MsPerMinute)
        h == rounded \div 60
        m == rounded % 60
    IN  wt.result \in {ToString(m) \o "m", ToString(h) \o "h " \o ToString(m) \o "m"}

====
